---- MODULE Spec2Model ----
(***************************************************************************)
(* Model of the call-interception engine of Hook_Combined.js               *)
(* (src/unnamed/part_002, lines 1121-1421): the concealment registry, the  *)
(* apply / call wrappers, the lazily installed finalize / encrypt /        *)
(* decrypt wrappers and the key-material extractor, running inside a small *)
(* JavaScript heap.                                                        *)
(***************************************************************************)
EXTENDS Integers, Sequences, FiniteSets, TLC

VARIABLES heap, nativeMap, closure, nextHook, log, act, calls, last, probe, second,
          debug, net, app, analysis, streams, loader

\* what lies outside the first run of the script and the program's calls
outside == <<second, debug, net, app, analysis, streams, loader>>

vars == <<heap, nativeMap, closure, nextHook, log, act, calls, last, probe, outside>>

(***************************************************************************)
(* Bounds                                                                  *)
(***************************************************************************)
\* number of calls the instrumented program makes in one behaviour
MaxCalls == 2
\* length of the word arrays handed to wordsToHex
MaxWords == 2
\* length of the byte sequences whose hex rendering is handed to hexToBase64
MaxBytes == 4
\* failed attempts to connect the model follows before the socket gives up
MaxFailures == 3
\* 10 s timeouts of onWebSocketDisconnect pending at once
MaxTimeouts == 1
\* times the debugging is started in one behaviour
MaxStarts == 2
\* requests of tryFetchLastEvent under way at once for one session
MaxFetches == 1
\* paused events of one session
MaxSeq == 1
\* activations of startAIAnalysis in one behaviour
MaxAnalyses == 2
\* chunks one stream delivers
MaxChunks == 2

(***************************************************************************)
(* JavaScript values.  Every value is a record of the same four fields so  *)
(* that any two values can be compared: t is the type tag, n the number,   *)
(* s the identity of a heap object, d the characters of a string.          *)
(***************************************************************************)
Undef == [t |-> "undef", n |-> 0, s |-> "", d |-> <<>>]
Null == [t |-> "null", n |-> 0, s |-> "", d |-> <<>>]
Num(k) == [t |-> "num", n |-> k, s |-> "", d |-> <<>>]
Str(cs) == [t |-> "str", n |-> 0, s |-> "", d |-> cs]
Obj(id) == [t |-> "obj", n |-> 0, s |-> id, d |-> <<>>]

\* string literals of the source, as character sequences
S_objectObject == <<"[","o","b","j","e","c","t"," ","O","b","j","e","c","t","]">>
S_function == <<"f","u","n","c","t","i","o","n">>
S_functionParen == <<"f","u","n","c","t","i","o","n","(",")">>
S_64bits == <<"6","4","b","i","t","s">>
S_128bits == <<"1","2","8","b","i","t","s">>
S_192bits == <<"1","9","2","b","i","t","s">>
S_256bits == <<"2","5","6","b","i","t","s">>
S_unknown == <<"?">>
S_TypeError == <<"T","y","p","e","E","r","r","o","r">>

\* the error value a failed property access or a call of a non-function raises
TypeError == Str(S_TypeError)

(***************************************************************************)
(* Heap objects: kind is what typeof / Array.isArray / the arguments       *)
(* exotic object distinguish, proto the [[Prototype]], own the own named   *)
(* properties, elems the indexed elements of an array-like.                *)
(***************************************************************************)
NoOwn == [p \in {} |-> Undef]
MkObj(proto, own) == [kind |-> "object", proto |-> proto, own |-> own, elems |-> <<>>]
MkFun(own) == [kind |-> "function", proto |-> "FunctionPrototype", own |-> own, elems |-> <<>>]
MkArray(elems) == [kind |-> "array", proto |-> "ObjectPrototype", own |-> NoOwn, elems |-> elems]
\* a genuine arguments object of a sloppy-mode function: it has an own callee
MkArguments(callee, elems) == [kind |-> "arguments", proto |-> "ObjectPrototype", own |-> ("callee" :> Obj(callee)), elems |-> elems]

C(ch) == <<ch>>
NameLen(name, len) == ("name" :> Str(name)) @@ ("length" :> Num(len))

\* the wrappers created while the program runs are taken from this pool, in order
HookPool == <<"hook1", "hook2", "hook3", "hook4", "hook5", "hook6">>

(***************************************************************************)
(* Key/material extractor: the pure functions.                             *)
(***************************************************************************)
\* \s over the characters strings are written in
SpaceChars == {" "}
RECURSIVE SkipWhile(_, _, _)
\* the first position >= k of cs whose character is not in cl (Len + 1 if none)
SkipWhile(cs, k, cl) == IF k <= Len(cs) /\ cs[k] \in cl THEN SkipWhile(cs, k + 1, cl) ELSE k
RECURSIVE SkipTo(_, _, _)
\* the first position >= k of cs whose character is ch (Len + 1 if none)
SkipTo(cs, k, ch) == IF k <= Len(cs) /\ cs[k] # ch THEN SkipTo(cs, k + 1, ch) ELSE k

HexDigits == <<"0","1","2","3","4","5","6","7","8","9","a","b","c","d","e","f">>
UpperHexDigits == <<"0","1","2","3","4","5","6","7","8","9","A","B","C","D","E","F">>
B64Alphabet == <<"A","B","C","D","E","F","G","H","I","J","K","L","M","N","O","P","Q","R","S","T","U","V","W","X","Y","Z","a","b","c","d","e","f","g","h","i","j","k","l","m","n","o","p","q","r","s","t","u","v","w","x","y","z","0","1","2","3","4","5","6","7","8","9","+","/">>

\* the value of a hexadecimal digit as parseInt(_, 16) reads it, -1 for any other character
HexVal(ch) == IF \E i \in 1..16 : HexDigits[i] = ch THEN (CHOOSE i \in 1..16 : HexDigits[i] = ch) - 1
              ELSE IF \E i \in 11..16 : UpperHexDigits[i] = ch THEN (CHOOSE i \in 11..16 : UpperHexDigits[i] = ch) - 1
              ELSE -1
\* what /[0-9a-f]/ accepts
IsLowerHex(ch) == \E i \in 1..16 : HexDigits[i] = ch

\* the same classification reading the size as a number of bits
get_sigBits(size) == IF size = Num(64) THEN Str(S_64bits)
                     ELSE IF size = Num(128) THEN Str(S_128bits)
                     ELSE IF size = Num(192) THEN Str(S_192bits)
                     ELSE IF size = Num(256) THEN Str(S_256bits)
                     ELSE Str(S_unknown)
\* get_sigBytes(size)
get_sigBytes(size) == IF size = Num(8) THEN Str(S_64bits)
                      ELSE IF size = Num(16) THEN Str(S_128bits)
                      ELSE IF size = Num(24) THEN Str(S_192bits)
                      ELSE IF size = Num(32) THEN Str(S_256bits)
                      ELSE Str(S_unknown)

Pow2(k) == 2 ^ k
\* the same byte counted from the least significant end of the word
ByteOfWordLittleEndian(w, i) == (w \div Pow2((i % 4) * 8)) % 256
\* (word >>> (24 - (i % 4) * 8)) & 0xff, for a word in the 32-bit signed range: >>>
\* reads the word modulo 2^32, and with a shift of at most 24 the low byte of the
\* shifted value is the low byte of the floored quotient
ByteOfWord(w, i) == (w \div Pow2(24 - (i % 4) * 8)) % 256

RECURSIVE WordsToHexFrom(_, _, _)
WordsToHexFrom(ws, i, sigBytes) ==
    IF i >= sigBytes THEN <<>>
    ELSE LET \* a word index beyond the array reads undefined, which >>> turns into 0
             w == IF (i \div 4) + 1 <= Len(ws) THEN ws[(i \div 4) + 1] ELSE 0
             byte == ByteOfWord(w, i)
         IN <<HexDigits[(byte \div 16) + 1], HexDigits[(byte % 16) + 1]>> \o WordsToHexFrom(ws, i + 1, sigBytes)

\* wordsToHex(words, sigBytes), words given as the numbers of the array
wordsToHex(ws, sigBytes) == WordsToHexFrom(ws, 0, sigBytes)

RECURSIVE HexPrefixValue(_, _)
\* the number the longest prefix of hexadecimal digits of cs denotes, after acc
HexPrefixValue(cs, acc) == IF cs = <<>> \/ HexVal(cs[1]) < 0 THEN acc
                           ELSE HexPrefixValue(Tail(cs), 16 * acc + HexVal(cs[1]))
\* parseInt(cs, 16) as [nan, v]: leading blanks, a sign and an 0x prefix are skipped
ParseIntHex(cs) ==
    LET Digits(t2, sign) == IF t2 = <<>> \/ HexVal(t2[1]) < 0 THEN [nan |-> TRUE, v |-> 0]
                            ELSE [nan |-> FALSE, v |-> sign * HexPrefixValue(t2, 0)]
        Prefix(t1, sign) == Digits(IF Len(t1) >= 2 /\ t1[1] = "0" /\ t1[2] \in {"x", "X"}
                                   THEN SubSeq(t1, 3, Len(t1)) ELSE t1, sign)
        Sign(t0) == Prefix(IF t0 # <<>> /\ t0[1] \in {"+", "-"} THEN Tail(t0) ELSE t0,
                           IF t0 # <<>> /\ t0[1] = "-" THEN -1 ELSE 1)
    IN Sign(SubSeq(cs, SkipWhile(cs, 1, SpaceChars), Len(cs)))

RECURSIVE HexToBytesByDigit(_)
\* the same loop advancing by one digit instead of two
HexToBytesByDigit(hex) == IF hex = <<>> THEN <<>>
                          ELSE <<ParseIntHex(SubSeq(hex, 1, IF Len(hex) >= 2 THEN 2 ELSE 1)).v>>
                               \o HexToBytesByDigit(Tail(hex))
RECURSIVE HexToBytes(_)
\* the bytes array hexToBase64 builds: parseInt(hex.substr(i, 2), 16) for i = 0, 2, ...
\* (NaN is kept as 0, which is the char code String.fromCharCode gives it)
HexToBytes(hex) == IF hex = <<>> THEN <<>>
                   ELSE <<ParseIntHex(SubSeq(hex, 1, IF Len(hex) >= 2 THEN 2 ELSE 1)).v>>
                        \o HexToBytes(SubSeq(hex, 3, Len(hex)))

RECURSIVE Btoa(_)
\* btoa over a string of char codes <= 255
Btoa(bs) == IF bs = <<>> THEN <<>>
            ELSE IF Len(bs) = 1 THEN <<B64Alphabet[(bs[1] \div 4) + 1], B64Alphabet[((bs[1] % 4) * 16) + 1], "=", "=">>
            ELSE IF Len(bs) = 2 THEN <<B64Alphabet[(bs[1] \div 4) + 1], B64Alphabet[((bs[1] % 4) * 16 + bs[2] \div 16) + 1], B64Alphabet[((bs[2] % 16) * 4) + 1], "=">>
            ELSE <<B64Alphabet[(bs[1] \div 4) + 1], B64Alphabet[((bs[1] % 4) * 16 + bs[2] \div 16) + 1], B64Alphabet[((bs[2] % 16) * 4 + bs[3] \div 64) + 1], B64Alphabet[(bs[3] % 64) + 1]>> \o Btoa(SubSeq(bs, 4, Len(bs)))

\* the printable ASCII characters, code 32 to 126 (the quote, the backslash and the backtick by number)
Ascii == <<" ","!","U+34","#","$","%","&","'","(",")","*","+",",","-",".","/","0","1","2","3","4","5","6","7","8","9",":",";","<","=",">","?","@","A","B","C","D","E","F","G","H","I","J","K","L","M","N","O","P","Q","R","S","T","U","V","W","X","Y","Z","[","U+92","]","^","_","U+96","a","b","c","d","e","f","g","h","i","j","k","l","m","n","o","p","q","r","s","t","u","v","w","x","y","z","{","|","}","~">>
\* the character with this code point; outside printable ASCII it is named by its number
CharOf(cp) == IF cp >= 32 /\ cp <= 126 THEN Ascii[cp - 31] ELSE "U+" \o ToString(cp)

RECURSIVE PercentEscape(_)
\* hexKey.replace(/[0-9a-f]{2}/g, '%$&')
PercentEscape(cs) == IF cs = <<>> THEN <<>>
                     ELSE IF Len(cs) >= 2 /\ IsLowerHex(cs[1]) /\ IsLowerHex(cs[2])
                          THEN <<"%", cs[1], cs[2]>> \o PercentEscape(SubSeq(cs, 3, Len(cs)))
                          ELSE <<cs[1]>> \o PercentEscape(SubSeq(cs, 2, Len(cs)))

\* the byte a %XX escape at position k denotes, -1 when there is none
EscapedByte(cs, k) == IF k + 2 <= Len(cs) /\ cs[k] = "%" /\ HexVal(cs[k + 1]) >= 0 /\ HexVal(cs[k + 2]) >= 0
                      THEN 16 * HexVal(cs[k + 1]) + HexVal(cs[k + 2]) ELSE -1
\* the length of the UTF-8 sequence a lead byte opens, 0 when it cannot open one
Utf8Len(b) == IF b < 128 THEN 1 ELSE IF b >= 194 /\ b <= 223 THEN 2
              ELSE IF b >= 224 /\ b <= 239 THEN 3 ELSE IF b >= 240 /\ b <= 244 THEN 4 ELSE 0
IsCont(b) == b >= 128 /\ b <= 191
\* the code point of a well-formed UTF-8 sequence, -1 otherwise (overlong, surrogate, out of range)
Utf8CodePoint(bs) ==
    IF Len(bs) = 1 THEN bs[1]
    ELSE IF \E i \in 2..Len(bs) : ~IsCont(bs[i]) THEN -1
    ELSE IF Len(bs) = 2 THEN (bs[1] - 192) * 64 + (bs[2] - 128)
    ELSE IF Len(bs) = 3 THEN
         IF (bs[1] = 224 /\ bs[2] < 160) \/ (bs[1] = 237 /\ bs[2] > 159) THEN -1
         ELSE (bs[1] - 224) * 4096 + (bs[2] - 128) * 64 + (bs[3] - 128)
    ELSE IF (bs[1] = 240 /\ bs[2] < 144) \/ (bs[1] = 244 /\ bs[2] > 143) THEN -1
         ELSE (bs[1] - 240) * 262144 + (bs[2] - 128) * 4096 + (bs[3] - 128) * 64 + (bs[4] - 128)

RECURSIVE DecodeFrom(_, _)
\* decodeURIComponent from position k: [ok, d]; ok is FALSE where it throws URIError
DecodeFrom(cs, k) ==
    IF k > Len(cs) THEN [ok |-> TRUE, d |-> <<>>]
    ELSE IF cs[k] # "%" THEN
         LET Plain(r) == [ok |-> r.ok, d |-> <<cs[k]>> \o r.d] IN Plain(DecodeFrom(cs, k + 1))
    ELSE LET Rest(cp, r) == [ok |-> r.ok, d |-> <<CharOf(cp)>> \o r.d]
             Point(cp, n) == IF cp < 0 THEN [ok |-> FALSE, d |-> <<>>] ELSE Rest(cp, DecodeFrom(cs, k + 3 * n))
             Sequence(bs, n) == Point(IF n = 0 \/ (\E i \in 1..n : bs[i] < 0) THEN -1 ELSE Utf8CodePoint(bs), n)
             Escapes(n) == Sequence([i \in 1..n |-> EscapedByte(cs, k + 3 * (i - 1))], n)
             Lead(b) == Escapes(IF b < 0 THEN 0 ELSE Utf8Len(b))
         IN Lead(EscapedByte(cs, k))

decodeURIComponent(cs) == DecodeFrom(cs, 1)

(***************************************************************************)
(* The functions of the runtime: the native primitives, the engine's       *)
(* wrappers and the functions of the instrumented program.                 *)
(***************************************************************************)
S_nativeBody == <<" ","{"," ","[","n","a","t","i","v","e"," ","c","o","d","e","]"," ","}">>
\* what the native decompile operation prints for a built-in function
NativeSrc(name) == S_function \o <<" ">> \o name \o <<"(",")">> \o S_nativeBody
N_toString == <<"t","o","S","t","r","i","n","g">>
N_apply == <<"a","p","p","l","y">>
N_call == <<"c","a","l","l">>

\* the source text of each function that exists from the start (bodies shortened)
FnSrc(f) ==
    CASE f = "native_toString" -> NativeSrc(N_toString)
      [] f = "native_apply" -> NativeSrc(N_apply)
      [] f = "native_call" -> NativeSrc(N_call)
      [] f = "Object_toString" -> NativeSrc(N_toString)
      [] f = "toStringHook" -> <<"f","u","n","c","t","i","o","n"," ","t","o","S","t","r","i","n","g","(",")"," ","{","}">>
      [] f = "applyHook" -> <<"f","u","n","c","t","i","o","n"," ","(",")"," ","{"," ","[","d","e","b","u","g","]"," ","}">>
      [] f = "callHook" -> <<"f","u","n","c","t","i","o","n"," ","(",")"," ","{"," ","[","d","e","b","u","g","]"," ","}">>
      [] f = "fnAnon" -> <<"f","u","n","c","t","i","o","n","(",")","{","}">>
      [] f = "fnNamed" -> <<"f","u","n","c","t","i","o","n"," ","f","(","a",")","{","}">>
      [] f = "fnArrow" -> <<"(",")","=",">","1">>
      [] f = "fnThrow" -> <<"f","u","n","c","t","i","o","n","(",")","{","t","h","r","o","w"," ","1","}">>
      [] f = "finalize1" -> <<"f","u","n","c","t","i","o","n","(","m",")","{","}">>
      [] f = "encrypt1" -> <<"f","u","n","c","t","i","o","n","(","t",")","{","e","}">>
      [] f = "decrypt1" -> <<"f","u","n","c","t","i","o","n","(","t",")","{","d","}">>
      [] OTHER -> <<"f","u","n","c","t","i","o","n","(",")","{","}">>
\* the source text of a wrapper created while the program runs
HookSrc == <<"f","u","n","c","t","i","o","n"," ","(",")"," ","{"," ","[","d","e","b","u","g","]"," ","}">>

ProgramFunctions == {"fnAnon", "fnNamed", "fnArrow", "fnThrow", "finalize1", "doFinalize",
                     "encrypt1", "decrypt1", "getPublicKey", "getPrivateKey", "noop",
                     "wa_toString", "cp_toString", "Object", "Object_toString",
                     "Primitive_toString", "String_fromCharCode"}

\* the nine marker fields hasRSAProp asks for, all but the accessors bound to a no-op
RsaMarkers == ("constructor" :> Obj("noop")) @@ ("getPrivateBaseKey" :> Obj("noop"))
              @@ ("getPrivateBaseKeyB64" :> Obj("noop")) @@ ("getPrivateKey" :> Obj("getPrivateKey"))
              @@ ("getPublicBaseKey" :> Obj("noop")) @@ ("getPublicBaseKeyB64" :> Obj("noop"))
              @@ ("getPublicKey" :> Obj("getPublicKey")) @@ ("parseKey" :> Obj("noop"))
              @@ ("parsePropertiesFrom" :> Obj("noop"))

\* a value with the eight CipherEncryptShape fields
EncShape(key, mode) == ("ciphertext" :> Str(<<>>)) @@ ("key" :> key) @@ ("iv" :> Obj("ivWA"))
                       @@ ("algorithm" :> Obj("emptyObj")) @@ ("mode" :> mode)
                       @@ ("padding" :> Obj("emptyObj")) @@ ("blockSize" :> Num(4))
                       @@ ("formatter" :> Obj("emptyObj"))

BuiltinObjects ==
    ("ObjectPrototype" :> [kind |-> "object", proto |-> "null", elems |-> <<>>,
                           own |-> ("constructor" :> Obj("Object")) @@ ("toString" :> Obj("Object_toString"))])
    @@ ("FunctionPrototype" :> [kind |-> "function", proto |-> "ObjectPrototype", elems |-> <<>>,
                                own |-> ("toString" :> Obj("native_toString")) @@ ("apply" :> Obj("native_apply"))
                                        @@ ("call" :> Obj("native_call"))])
    \* stands for Number.prototype and String.prototype
    @@ ("PrimitivePrototype" :> MkObj("ObjectPrototype", "toString" :> Obj("Primitive_toString")))
    \* the bytes array hexToBase64 builds, garbage once it returns
    @@ ("bytes" :> MkArray(<<>>))
    @@ ("native_toString" :> MkFun(NameLen(N_toString, 0)))
    @@ ("native_apply" :> MkFun(NameLen(N_apply, 2)))
    @@ ("native_call" :> MkFun(NameLen(N_call, 1)))
    @@ ("toStringHook" :> MkFun(NameLen(N_toString, 0)))
    @@ ("applyHook" :> MkFun(NameLen(<<>>, 0)))
    @@ ("callHook" :> MkFun(NameLen(<<>>, 0)))
    \* the three functions a second run of the script creates
    @@ ("toStringHook2" :> MkFun(NameLen(N_toString, 0)))
    @@ ("applyHook2" :> MkFun(NameLen(<<>>, 0)))
    @@ ("callHook2" :> MkFun(NameLen(<<>>, 0)))
    @@ [h \in {HookPool[i] : i \in 1..Len(HookPool)} |-> MkFun(NameLen(<<>>, 0))]
    @@ [f \in ProgramFunctions |-> MkFun(NameLen(<<>>, 0))]

CipherObjects ==
    ("emptyObj" :> MkObj("ObjectPrototype", NoOwn))
    @@ ("plain" :> MkObj("ObjectPrototype", NoOwn))
    @@ ("CipherParams" :> MkObj("ObjectPrototype", "toString" :> Obj("cp_toString")))
    @@ ("cipher" :> MkObj("CipherParams", "$super" :> Obj("CipherParams")))
    @@ ("WordArray" :> MkObj("ObjectPrototype", "toString" :> Obj("wa_toString")))
    @@ ("keyWords" :> MkArray(<<Num(16909060), Num(-2), Num(0), Num(255)>>))
    @@ ("keyWA" :> MkObj("WordArray", ("words" :> Obj("keyWords")) @@ ("sigBytes" :> Num(16))))
    @@ ("ivWords" :> MkArray(<<Num(1633837924)>>))
    @@ ("ivWA" :> MkObj("WordArray", ("words" :> Obj("ivWords")) @@ ("sigBytes" :> Num(4))))
    \* a word array that lost its words: its toString reads words[0] of undefined
    @@ ("keyNoWords" :> MkObj("WordArray", "sigBytes" :> Num(4)))
    @@ ("modeOK" :> MkObj("ObjectPrototype", "Encryptor" :> Obj("emptyObj")))
    @@ ("modeBad" :> MkObj("ObjectPrototype", "Encryptor" :> Undef))
    @@ ("encCfgA" :> MkObj("ObjectPrototype", EncShape(Obj("keyWA"), Obj("modeOK"))))
    @@ ("encCfgBad" :> MkObj("ObjectPrototype", EncShape(Obj("keyWA"), Obj("modeBad"))))
    @@ ("decCfg" :> MkObj("ObjectPrototype", "padding" :> Obj("emptyObj")))
    @@ ("decCfgIv" :> MkObj("ObjectPrototype", "iv" :> Obj("ivWA")))
    @@ ("decCfgMode" :> MkObj("ObjectPrototype", "mode" :> Obj("emptyObj")))

ArgumentObjects ==
    ("argsEncA" :> MkArguments("fnAnon", <<Obj("encCfgA")>>))
    @@ ("arrEncA" :> MkArray(<<Obj("encCfgA")>>))
    @@ ("argsEncBad" :> MkArguments("fnAnon", <<Obj("encCfgBad")>>))
    @@ ("argsDecOK" :> MkArguments("fnNamed", <<Num(2), Obj("keyWA"), Obj("decCfg")>>))
    @@ ("argsDecUndef" :> MkArguments("fnNamed", <<Num(2), Obj("keyWA"), Undef>>))
    @@ ("argsDecIv" :> MkArguments("fnNamed", <<Num(2), Obj("keyWA"), Obj("decCfgIv")>>))
    @@ ("argsDecMode" :> MkArguments("fnNamed", <<Num(2), Obj("keyWA"), Obj("decCfgMode")>>))
    @@ ("argsDecOne" :> MkArguments("fnNamed", <<Num(1), Obj("keyWA"), Obj("decCfg")>>))
    @@ ("argsDecThird" :> MkArguments("fnNamed", <<Num(2), Obj("decCfg"), Obj("keyWA")>>))
    @@ ("argsTwo" :> MkArguments("fnAnon", <<Obj("emptyObj"), Num(1)>>))
    \* the discriminant and the key of a decryption, without the third value
    @@ ("argsTwoKey" :> MkArguments("fnNamed", <<Num(2), Obj("keyWA")>>))

HashObjects ==
    ("Hasher1" :> MkObj("ObjectPrototype", "finalize" :> Obj("finalize1")))
    @@ ("SHA_A" :> MkObj("Hasher1", ("$super" :> Obj("Hasher1")) @@ ("_doFinalize" :> Obj("doFinalize"))
                                    @@ ("init" :> Obj("fnAnon"))))
    @@ ("hasher1" :> MkObj("SHA_A", "$super" :> Obj("SHA_A")))
    \* a second hasher family whose finalize is the same function
    @@ ("Hasher2" :> MkObj("ObjectPrototype", "finalize" :> Obj("finalize1")))
    @@ ("SHA_B" :> MkObj("Hasher2", ("$super" :> Obj("Hasher2")) @@ ("_doFinalize" :> Obj("doFinalize"))))
    @@ ("hasher2" :> MkObj("SHA_B", ("$super" :> Obj("SHA_B")) @@ ("init" :> Obj("fnAnon"))))
    @@ ("hashWords" :> MkArray(<<Num(-559038737)>>))
    @@ ("hashWA" :> MkObj("WordArray", ("words" :> Obj("hashWords")) @@ ("sigBytes" :> Num(4))))

RsaObjects ==
    ("RSAKeyProto" :> MkObj("ObjectPrototype", ("encrypt" :> Obj("encrypt1")) @@ ("decrypt" :> Obj("decrypt1"))))
    @@ ("JSEKeyProto" :> MkObj("RSAKeyProto", RsaMarkers))
    @@ ("rsaKey" :> MkObj("JSEKeyProto", NoOwn))
    \* a key family whose parent has encrypt only
    @@ ("HalfProto" :> MkObj("ObjectPrototype", "encrypt" :> Obj("noop")))
    @@ ("JSEKeyProto2" :> MkObj("HalfProto", RsaMarkers))
    @@ ("rsaHalf" :> MkObj("JSEKeyProto2", NoOwn))

\* the heap before the engine is installed
PristineHeap == BuiltinObjects @@ CipherObjects @@ ArgumentObjects @@ HashObjects @@ RsaObjects

(***************************************************************************)
(* Property access on values.  h is a heap.                                *)
(***************************************************************************)
Nullish(v) == v.t = "undef" \/ v.t = "null"
\* ToBoolean
Truthy(v) == CASE v.t = "undef" -> FALSE
               [] v.t = "null" -> FALSE
               [] v.t = "num" -> v.n # 0
               [] v.t = "str" -> v.d # <<>>
               [] OTHER -> TRUE
IsFunction(h, v) == v.t = "obj" /\ h[v.s].kind = "function"
\* typeof v === 'object' for a truthy v
TypeofObject(h, v) == v.t = "obj" /\ h[v.s].kind # "function"
IsArrayLike(h, v) == v.t = "obj" /\ h[v.s].kind \in {"array", "arguments"}

\* Object.hasOwn(v, p) for a v that is not null or undefined
HasOwn(h, v, p) == v.t = "obj" /\ p \in DOMAIN h[v.s].own

RECURSIVE Lookup(_, _, _)
\* the value of property p found from object id along the prototype chain
Lookup(h, id, p) == IF p \in DOMAIN h[id].own THEN h[id].own[p]
                    ELSE IF h[id].proto = "null" THEN Undef
                    ELSE Lookup(h, h[id].proto, p)
RECURSIVE InChain(_, _, _)
\* p in obj
InChain(h, id, p) == \/ p \in DOMAIN h[id].own
                     \/ (h[id].proto # "null" /\ InChain(h, h[id].proto, p))
RECURSIVE Inherits(_, _, _)
\* whether object id is, or inherits from, object anc
Inherits(h, id, anc) == id = anc \/ (h[id].proto # "null" /\ Inherits(h, h[id].proto, anc))

\* v[p] for a v that is not null or undefined
Get(h, v, p) == IF v.t = "str" /\ p = "length" THEN Num(Len(v.d))
                ELSE IF v.t # "obj" THEN Lookup(h, "PrimitivePrototype", p)
                ELSE IF p = "length" /\ IsArrayLike(h, v) THEN Num(Len(h[v.s].elems))
                ELSE Lookup(h, v.s, p)
\* v[i] for an index i >= 0
Elem(h, v, i) == IF IsArrayLike(h, v) /\ i < Len(h[v.s].elems) THEN h[v.s].elems[i + 1] ELSE Undef
\* v.__proto__
ProtoOf(h, v) == IF v.t = "obj"
                 THEN (IF h[v.s].proto = "null"
                       THEN (IF v.s = "ObjectPrototype" THEN Null ELSE Undef)
                       ELSE Obj(h[v.s].proto))
                 ELSE Obj("PrimitivePrototype")
\* "__proto__" in v: the accessor lives on Object.prototype
HasProtoAccessor(h, v) == v.t = "obj" /\ Inherits(h, v.s, "ObjectPrototype")

\* hasEncryptProp(obj)
hasEncryptProp(h, v) ==
    /\ Truthy(v) /\ TypeofObject(h, v)
    /\ \A p \in {"ciphertext", "key", "iv", "algorithm", "mode", "padding", "blockSize", "formatter"} : InChain(h, v.s, p)
\* hasDecryptProp(obj)
hasDecryptProp(h, v) ==
    /\ Truthy(v) /\ TypeofObject(h, v)
    /\ \A p \in {"sigBytes", "words"} : InChain(h, v.s, p)
\* hasRSAProp(obj)
hasRSAProp(h, v) ==
    /\ Truthy(v) /\ TypeofObject(h, v)
    /\ \A p \in {"constructor", "getPrivateBaseKey", "getPrivateBaseKeyB64", "getPrivateKey", "getPublicBaseKey",
                 "getPublicBaseKeyB64", "getPublicKey", "parseKey", "parsePropertiesFrom"} : InChain(h, v.s, p)

(***************************************************************************)
(* The caller tests on the decompiled source of the applied function.      *)
(***************************************************************************)
\* [A-Za-z_$] and [\w$]
IdentStartChars == {Ascii[i] : i \in (34..59) \cup (66..91)} \cup {"_", "$"}
IdentPartChars == IdentStartChars \cup {Ascii[i] : i \in 17..26}

\* whether pat occurs in cs at position k
At(cs, k, pat) == k >= 1 /\ k + Len(pat) - 1 <= Len(cs) /\ SubSeq(cs, k, k + Len(pat) - 1) = pat
\* str.indexOf(pat) !== -1
Contains(cs, pat) == \E k \in 1..(Len(cs) + 1) : At(cs, k, pat)

\* /^\s*function(?:\s*)?\s*[A-Za-z_$][\w$]*\s*\([^)]*\)\s*\{/.test(cs)
MatchesNamedFunction(cs) ==
    LET k0 == SkipWhile(cs, 1, SpaceChars)
        k1 == SkipWhile(cs, k0 + Len(S_function), SpaceChars)
        k2 == SkipWhile(cs, k1 + 1, IdentPartChars)
        k3 == SkipWhile(cs, k2, SpaceChars)
        k4 == SkipTo(cs, k3 + 1, ")")
        k5 == SkipWhile(cs, k4 + 1, SpaceChars)
    IN /\ At(cs, k0, S_function)
       /\ k1 <= Len(cs) /\ cs[k1] \in IdentStartChars
       /\ At(cs, k3, <<"(">>)
       /\ At(cs, k4, <<")">>)
       /\ At(cs, k5, <<"{">>)
\* /^\s*function\s*\(\s*\)\s*\{/.test(cs)
MatchesAnonymousNoArgs(cs) ==
    LET k0 == SkipWhile(cs, 1, SpaceChars)
        k1 == SkipWhile(cs, k0 + Len(S_function), SpaceChars)
        k2 == SkipWhile(cs, k1 + 1, SpaceChars)
        k3 == SkipWhile(cs, k2 + 1, SpaceChars)
    IN /\ At(cs, k0, S_function)
       /\ At(cs, k1, <<"(">>)
       /\ At(cs, k2, <<")">>)
       /\ At(cs, k3, <<"{">>)

\* the caller test of the symmetric-encrypt branch
EncCallerTest(cs) == Contains(cs, S_functionParen) \/ MatchesNamedFunction(cs) \/ MatchesAnonymousNoArgs(cs)
\* the caller test of the symmetric-decrypt branch
DecCallerTest(cs) == ~Contains(cs, S_functionParen)

(***************************************************************************)
(* Execution.  A run state st holds the heap, the registry (_nativeMap),   *)
(* the closures of the lazily created wrappers, the emitted log, the       *)
(* counter of wrapper activations, the stack of the active ones, the count *)
(* of failures of the analysis code that left a wrapper, and the           *)
(* activations that reached their call-through.  Every step yields         *)
(* [st, out]: the state after it and how it completed.                     *)
(***************************************************************************)
Ret(st, v) == [st |-> st, out |-> [k |-> "ret", v |-> v]]
Throw(st, v) == [st |-> st, out |-> [k |-> "throw", v |-> v]]
Threw(r) == r.out.k = "throw"

\* console.log of one line by activation me
Emit(st, cat, tag, v) ==
    [st EXCEPT !.log = Append(@, [act |-> st.stack[Len(st.stack)], stack |-> st.stack, cat |-> cat, tag |-> tag, v |-> v])]
\* a wrapper is entered / left
\* (got keeps, for each activation, the wrapper entered and the receiver and arguments it was given)
Enter(st, fn, thisv, args) ==
    [st EXCEPT !.act = @ + 1, !.stack = Append(@, st.act + 1),
               !.deep = IF Len(st.stack) + 1 > @ THEN Len(st.stack) + 1 ELSE @,
               !.got = Append(@, [act |-> st.act + 1, fn |-> fn, recv |-> thisv, args |-> args])]
Leave(r) == [r EXCEPT !.st.stack = SubSeq(@, 1, Len(@) - 1)]
\* the activation running on top of the stack
Me(st) == st.stack[Len(st.stack)]
\* the analysis code of the running wrapper failed and nothing caught it
Escaped(r) == [r EXCEPT !.st.esc = @ + 1, !.st.failed = @ \cup {Me(r.st)}]
\* the running wrapper reaches the call of its original, handing it a receiver and arguments
Through(st, recv, args) ==
    [st EXCEPT !.inv = Append(@, Me(st)),
               !.sent = Append(@, [act |-> Me(st), recv |-> recv, args |-> args])]

\* _nativeMap.has(v)
NativeMapHas(st, v) == v.t = "obj" /\ v.s \in DOMAIN st.nativeMap

\* the same function registering the wrapper in a registry emptied of its earlier entries
makeNativeForgetting(st, hook, orig) ==
    LET named == IF Nullish(orig) THEN st.heap
                 ELSE [st.heap EXCEPT ![hook].own = ("name" :> Get(st.heap, orig, "name"))
                                                    @@ ("length" :> Get(st.heap, orig, "length")) @@ @]
    IN [st EXCEPT !.heap = named, !.nativeMap = (hook :> orig)]
\* makeNative(hookFunc, originalFunc)
makeNative(st, hook, orig) ==
    LET named == IF Nullish(orig) THEN st.heap \* originalFunc.name throws, caught
                 ELSE [st.heap EXCEPT ![hook].own = ("name" :> Get(st.heap, orig, "name"))
                                                    @@ ("length" :> Get(st.heap, orig, "length")) @@ @]
    IN [st EXCEPT !.heap = named, !.nativeMap = (hook :> orig) @@ @]

\* a new function object closing over the original it wraps
NewHook(st, kind, orig, at) ==
    [st EXCEPT !.closure = (HookPool[st.nextHook] :> [kind |-> kind, orig |-> orig, by |-> Me(st), at |-> at]) @@ @,
               !.nextHook = @ + 1]

\* the same assignment registering what the slot holds once the wrapper is in it
PatchSlotRegisteringSlot(st, id, slot, kind) ==
    LET temp == st.heap[id].own[slot]
        hook == HookPool[st.nextHook]
        s1 == NewHook(st, kind, temp, <<id, slot>>)
        s2 == [s1 EXCEPT !.heap[id].own[slot] = Obj(hook)]
    IN makeNative(s2, hook, s2.heap[id].own[slot])
\* obj[slot] = makeNative(<new wrapper of kind>, temp) for the own slot of object id
PatchSlot(st, id, slot, kind) ==
    LET temp == st.heap[id].own[slot]
        hook == HookPool[st.nextHook]
        s1 == makeNative(NewHook(st, kind, temp, <<id, slot>>), hook, temp)
    IN [s1 EXCEPT !.heap[id].own[slot] = Obj(hook)]

(***************************************************************************)
(* Calls.  Invoke runs function f with a receiver and arguments, whatever  *)
(* f is: a native primitive, a wrapper of the engine or a function of the  *)
(* instrumented program.                                                   *)
(***************************************************************************)
RECURSIVE Invoke(_, _, _, _)

\* fv(...args) with this = thisv
CallValue(st, fv, thisv, args) ==
    IF IsFunction(st.heap, fv) THEN Invoke(st, fv.s, thisv, args) ELSE Throw(st, TypeError)
\* objv.name(...args): the method is looked up when the call is made
CallMethod(st, objv, name, args) ==
    IF Nullish(objv) THEN Throw(st, TypeError)
    ELSE CallValue(st, Get(st.heap, objv, name), objv, args)

\* the numbers of an array (a non-number reads as 0 under >>>)
NumbersOf(h, v) == [i \in 1..Len(h[v.s].elems) |-> IF h[v.s].elems[i].t = "num" THEN h[v.s].elems[i].n ELSE 0]

\* the native Function.prototype.toString
NativeToString(st, thisv) ==
    IF ~IsFunction(st.heap, thisv) THEN Throw(st, TypeError)
    ELSE Ret(st, Str(IF thisv.s \in DOMAIN st.closure THEN HookSrc ELSE FnSrc(thisv.s)))
\* the native Function.prototype.call
NativeCall(st, thisv, args) ==
    IF ~IsFunction(st.heap, thisv) THEN Throw(st, TypeError)
    ELSE Invoke(st, thisv.s, IF args = <<>> THEN Undef ELSE args[1], IF args = <<>> THEN <<>> ELSE Tail(args))
\* the native Function.prototype.apply
NativeApply(st, thisv, args) ==
    LET a0 == IF Len(args) >= 1 THEN args[1] ELSE Undef
        a1 == IF Len(args) >= 2 THEN args[2] ELSE Undef
    IN IF ~IsFunction(st.heap, thisv) THEN Throw(st, TypeError)
       ELSE IF Nullish(a1) THEN Invoke(st, thisv.s, a0, <<>>)
       ELSE IF a1.t # "obj" THEN Throw(st, TypeError)
       ELSE Invoke(st, thisv.s, a0, st.heap[a1.s].elems)

RECURSIVE NumToString(_)
\* Number.prototype.toString for an integer
NumToString(n) == IF n < 0 THEN <<"-">> \o NumToString(-n)
                  ELSE IF n < 10 THEN <<HexDigits[n + 1]>>
                  ELSE NumToString(n \div 10) \o <<HexDigits[(n % 10) + 1]>>

\* the functions of the instrumented program and of its libraries
ProgramFn(st, f, thisv, args) ==
    CASE f = "fnAnon" -> Ret(st, Num(1))
      [] f = "fnNamed" -> Ret(st, Num(2))
      [] f = "fnArrow" -> Ret(st, Num(3))
      [] f = "fnThrow" -> Throw(st, Str(<<"E">>))
      \* a finalize that, given a cipher configuration, runs the cipher's init on it
      [] f = "finalize1" ->
            IF args # <<>> /\ args[1] = Obj("encCfgA")
            THEN LET r == CallMethod(st, Obj("fnAnon"), "apply", <<Obj("cipher"), Obj("argsEncA")>>)
                 IN IF Threw(r) THEN r ELSE Ret(r.st, Obj("hashWA"))
            ELSE Ret(st, Obj("hashWA"))
      [] f = "encrypt1" -> Ret(st, Str(<<"0","a","1","b">>))
      \* a decrypt that fails on a call without ciphertext
      [] f = "decrypt1" -> IF args = <<>> THEN Throw(st, TypeError) ELSE Ret(st, Str(<<"p","t">>))
      [] f = "getPublicKey" -> Ret(st, Str(<<"p","u","b">>))
      [] f = "getPrivateKey" -> Ret(st, Str(<<"p","r","v">>))
      \* WordArray.toString: the hex rendering of the word array
      [] f = "wa_toString" ->
            IF thisv.t = "obj" /\ Get(st.heap, thisv, "words").t = "obj" /\ Get(st.heap, thisv, "sigBytes").t = "num"
            THEN Ret(st, Str(wordsToHex(NumbersOf(st.heap, Get(st.heap, thisv, "words")), Get(st.heap, thisv, "sigBytes").n)))
            ELSE Throw(st, TypeError)
      \* CipherParams.toString: the ciphertext text
      [] f = "cp_toString" ->
            IF thisv.t = "obj" /\ Get(st.heap, thisv, "ciphertext").t = "str"
            THEN Ret(st, Get(st.heap, thisv, "ciphertext")) ELSE Throw(st, TypeError)
      [] f = "Object_toString" -> Ret(st, Str(S_objectObject))
      [] f = "Primitive_toString" -> Ret(st, IF thisv.t = "num" THEN Str(NumToString(thisv.n)) ELSE thisv)
      [] f = "String_fromCharCode" -> Ret(st, Str([i \in 1..Len(args) |-> CharOf(args[i].n % 65536)]))
      [] OTHER -> Ret(st, Undef)

\* hexToBase64RSA(t) for a string t
RECURSIVE HexToBase64RSAFrom(_)
B64At(k) == IF k >= 0 /\ k <= 63 THEN <<B64Alphabet[k + 1]>> ELSE <<>>
HexToBase64RSAFrom(cs) ==
    LET Three(i) == B64At(i \div 64) \o B64At(i % 64)
        One(i) == B64At(i * 4)
        Two(i) == B64At(i \div 4) \o B64At((i % 4) * 16)
        Group(i) == IF Len(cs) >= 3 THEN Three(i) \o HexToBase64RSAFrom(SubSeq(cs, 4, Len(cs)))
                    ELSE IF Len(cs) = 1 THEN One(i) ELSE Two(i)
    IN IF cs = <<>> THEN <<>> ELSE Group(ParseIntHex(SubSeq(cs, 1, IF Len(cs) >= 3 THEN 3 ELSE Len(cs))).v)
hexToBase64RSA(cs) == LET Padded(r) == r \o [i \in 1..((4 - (Len(r) % 4)) % 4) |-> "="]
                      IN Padded(HexToBase64RSAFrom(cs))

\* hexToBase64(hex): String.fromCharCode.apply goes through the apply wrapper
hexToBase64(st, hex) ==
    LET \* a failure, and a char code btoa rejects, are caught
        Encoded(r, bytes) == IF Threw(r) \/ (\E i \in 1..Len(bytes) : bytes[i] < 0) THEN Str(<<>>) ELSE Str(Btoa(bytes))
        After(r, bytes) == Ret([r.st EXCEPT !.heap["bytes"].elems = <<>>], Encoded(r, bytes))
        Build(bytes) == After(CallMethod([st EXCEPT !.heap["bytes"].elems = [i \in 1..Len(bytes) |-> Num(bytes[i])]],
                                         Obj("String_fromCharCode"), "apply", <<Null, Obj("bytes")>>), bytes)
    IN IF ~Truthy(hex) THEN Ret(st, Str(<<>>))
       ELSE Build(IF hex.t = "str" THEN HexToBytes(hex.d) ELSE <<>>)

\* the hex view formatKey computes from words / sigBytes
WordsToHexValue(h, words, sigBytes) ==
    IF ~(words.t = "obj" /\ h[words.s].kind = "array") THEN Str(<<>>)
    ELSE Str(wordsToHex(NumbersOf(h, words), IF sigBytes.t = "num" THEN sigBytes.n ELSE 0))

\* the string view: decodeURIComponent of the escaped hex, the hex itself where that throws
StringView(hexKey) ==
    IF hexKey.t # "str" THEN hexKey
    ELSE LET View(dec) == IF dec.ok THEN Str(dec.d) ELSE hexKey
         IN View(decodeURIComponent(PercentEscape(hexKey.d)))

\* formatKey(keyObj): [st, out, fk] with fk the {string, hex, base64} it returns
formatKey(st, keyObj) ==
    LET Views(s, out, hexKey, b64) ==
            [st |-> s, out |-> out, fk |-> [string |-> StringView(hexKey), hex |-> hexKey, base64 |-> b64]]
        \* hexKey is known, or finding it threw: the base64 view is computed from it
        Encoded(rb, hexKey) == Views(rb.st, rb.out, hexKey, rb.out.v)
        Encode(rh) == IF Threw(rh) THEN Views(rh.st, rh.out, Str(<<>>), Str(<<>>))
                      ELSE Encoded(hexToBase64(rh.st, rh.out.v), rh.out.v)
        FromWords(s) ==
            Ret(s, IF Truthy(Get(s.heap, keyObj, "words")) /\ Truthy(Get(s.heap, keyObj, "sigBytes"))
                   THEN WordsToHexValue(s.heap, Get(s.heap, keyObj, "words"), Get(s.heap, keyObj, "sigBytes"))
                   ELSE Str(<<>>))
        \* keyObj.toString() is called once for the test and once more for the value
        First(r1) == IF Threw(r1) THEN r1
                     ELSE IF r1.out.v # Str(S_objectObject)
                          THEN CallValue(r1.st, Get(r1.st.heap, keyObj, "toString"), keyObj, <<>>)
                          ELSE FromWords(r1.st)
    IN IF ~Truthy(keyObj) THEN Views(st, [k |-> "ret", v |-> Undef], Str(<<>>), Str(<<>>))
       ELSE Encode(IF Truthy(Get(st.heap, keyObj, "toString"))
                   THEN First(CallValue(st, Get(st.heap, keyObj, "toString"), keyObj, <<>>))
                   ELSE FromWords(st))

\* const d = formatKey(v); then the three console.log lines of its views
FormatAndLog(st, cat, tag, v) ==
    LET Lines(r) == IF Threw(r) THEN [st |-> r.st, out |-> r.out]
                    ELSE Ret(Emit(Emit(Emit(r.st, cat, tag \o "String", r.fk.string), cat, tag \o "Hex", r.fk.hex),
                                  cat, tag \o "Base64", r.fk.base64), Undef)
    IN Lines(formatKey(st, v))

(***************************************************************************)
(* The wrappers.                                                           *)
(***************************************************************************)
\* the same wrapper without the registry lookup
ToStringHookNoLookup(st, thisv) ==
    LET s0 == Enter(st, "toString", thisv, <<>>)
    IN Leave(CallMethod(Through(s0, thisv, <<>>), Obj("native_toString"), "call", <<thisv>>))
\* Function.prototype.toString = function toString() {...}
ToStringHook(st, thisv) ==
    LET s0 == Enter(st, "toString", thisv, <<>>)
        target == IF NativeMapHas(s0, thisv) THEN s0.nativeMap[thisv.s] ELSE thisv
    IN Leave(CallMethod(Through(s0, target, <<>>), Obj("native_toString"), "call", <<target>>))

\* a guard that never finds the slot wrapped
NoGuard(st, fv) == TRUE
\* the guard without its negation
InvertedGuard(st, fv) == NativeMapHas(st, fv)
\* the guards of the lazy patches: the slot's current value is not a registered wrapper
FinalizeGuard(st, fv) == ~NativeMapHas(st, fv)
EncryptGuard(st, fv) == ~NativeMapHas(st, fv)
DecryptGuard(st, fv) == ~NativeMapHas(st, fv)

\* the test of the encrypt branch on the receiver and the argument container
EncInner(h, a) == HasOwn(h, a[1], "$super") /\ HasOwn(h, a[2], "callee")
\* the tests of the decrypt branch
DecInner(h, a) == HasOwn(h, a[1], "$super") /\ HasOwn(h, a[2], "callee")
\* the same test without the discriminant
DecCallerOnly(h, callerStr, a) == DecCallerTest(callerStr)
DecCallerAndDiscriminant(h, callerStr, a) == DecCallerTest(callerStr) /\ Elem(h, a[2], 0) = Num(2)

\* the body of the symmetric-encrypt branch of applyHook
EncBranch(st, thisv, a) ==
    LET cat == "SYM_ENCRYPT"
        cfg == Elem(st.heap, a[2], 0)
        key == Get(st.heap, cfg, "key")
        iv == Get(st.heap, cfg, "iv")
        mode == Get(st.heap, cfg, "mode")
        padding == Get(st.heap, cfg, "padding")
        \* try { arguments[0].$super.toString.call(arguments[1][0]) } catch (e) {}
        Ciphertext(rc) == IF Threw(rc) \/ rc.out.v = Str(S_objectObject) THEN Ret(rc.st, Undef)
                          ELSE Ret(Emit(rc.st, cat, "ciphertext", rc.out.v), Undef)
        AfterPadding(s) ==
            IF Nullish(Get(s.heap, a[1], "$super")) THEN Ret(s, Undef)
            ELSE Ciphertext(CallMethod(s, Get(s.heap, Get(s.heap, a[1], "$super"), "toString"), "call", <<cfg>>))
        AfterMode(s) == AfterPadding(IF Truthy(padding) THEN Emit(s, cat, "padding", padding) ELSE s)
        AfterKeyLength(s) ==
            IF Truthy(mode) /\ HasOwn(s.heap, mode, "Encryptor")
            THEN (IF Nullish(Get(s.heap, mode, "Encryptor")) THEN Throw(s, TypeError)
                  ELSE AfterMode(Emit(s, cat, "mode", Get(s.heap, Get(s.heap, mode, "Encryptor"), "processBlock"))))
            ELSE AfterMode(s)
        AfterIv(ri) ==
            IF Threw(ri) THEN ri
            ELSE AfterKeyLength(IF Truthy(key) /\ HasOwn(ri.st.heap, key, "sigBytes")
                                THEN Emit(ri.st, cat, "keyLength", get_sigBytes(Get(ri.st.heap, key, "sigBytes")))
                                ELSE ri.st)
        AfterKey(rk) ==
            IF Threw(rk) THEN rk
            ELSE AfterIv(IF Truthy(iv) THEN FormatAndLog(rk.st, cat, "iv", iv) ELSE rk)
        AfterCaller(rs) ==
            IF Threw(rs) THEN rs
            ELSE IF ~EncCallerTest(rs.out.v.d) THEN Ret(rs.st, Undef)
            ELSE AfterKey(FormatAndLog(Emit(rs.st, cat, "header", Undef), cat, "key", key))
    IN IF ~EncInner(st.heap, a) THEN Ret(st, Undef)
       ELSE AfterCaller(CallMethod(st, thisv, "toString", <<>>))

\* the value one position further in the container
DecKeyOfThird(h, c) == Elem(h, c, 2)
\* arguments[1][1]: the value of the container the decrypt branch tests and reports as the key
DecKeyOf(h, c) == Elem(h, c, 1)

\* the body of the symmetric-decrypt branch of applyHook
DecBranch(st, thisv, a) ==
    LET cat == "SYM_DECRYPT"
        h == st.heap
        cfg == Elem(h, a[2], 2)
        \* arguments[1][2][2] and arguments[1][2][2][2]
        cfg2 == Elem(h, cfg, 2)
        cfg22 == IF Nullish(cfg2) THEN Undef ELSE Elem(h, cfg2, 2)
        enc == Get(h, Get(h, cfg, "mode"), "Encryptor")
        AfterMode(s) == IF HasOwn(h, cfg, "padding") /\ Truthy(Get(h, cfg, "padding"))
                        THEN Ret(Emit(s, cat, "padding", Get(h, cfg, "padding")), Undef)
                        ELSE Ret(s, Undef)
        AfterIv(ri) ==
            IF Threw(ri) THEN ri
            ELSE IF HasOwn(h, cfg, "mode") /\ Truthy(Get(h, cfg, "mode"))
                 THEN (IF Nullish(enc) THEN Throw(ri.st, TypeError)
                       ELSE AfterMode(Emit(ri.st, cat, "mode", Get(h, enc, "processBlock"))))
                 ELSE AfterMode(ri.st)
        \* Object.hasOwn(arguments[1][2], "iv") && arguments[1][2][2][2]["iv"]
        AfterKey(rk) ==
            IF Threw(rk) THEN rk
            ELSE IF Nullish(cfg) THEN Throw(rk.st, TypeError)
            ELSE IF ~HasOwn(h, cfg, "iv") THEN AfterIv(rk)
            ELSE IF Nullish(cfg2) \/ Nullish(cfg22) THEN Throw(rk.st, TypeError)
            ELSE IF Truthy(Get(h, cfg22, "iv")) THEN AfterIv(FormatAndLog(rk.st, cat, "iv", Get(h, cfg, "iv")))
            ELSE AfterIv(rk)
        AfterCaller(rs) ==
            IF Threw(rs) THEN rs
            ELSE IF ~DecCallerAndDiscriminant(h, rs.out.v.d, a) THEN Ret(rs.st, Undef)
            ELSE AfterKey(FormatAndLog(Emit(rs.st, cat, "header", Undef), cat, "key", DecKeyOf(h, a[2])))
    IN IF ~DecInner(h, a) THEN Ret(st, Undef)
       ELSE AfterCaller(CallMethod(st, thisv, "toString", <<>>))

\* the same branch assigning the wrapper on the receiver instead of two levels up
HashBranchOnReceiver(st, a) ==
    LET h == st.heap
        p == ProtoOf(h, a[1])
        gp == IF Truthy(p) THEN ProtoOf(h, p) ELSE Undef
        shape == /\ Truthy(p) /\ HasOwn(h, p, "$super") /\ HasOwn(h, p, "_doFinalize")
                 /\ Truthy(gp) /\ HasOwn(h, gp, "finalize")
        temp == Get(h, a[1], "finalize")
        hook == HookPool[st.nextHook]
        s1 == makeNative(NewHook(st, "finalize", temp, <<gp.s, "finalize">>), hook, temp)
    IN IF shape /\ ~NativeMapHas(st, temp)
       THEN Ret([s1 EXCEPT !.heap[a[1].s].own = ("finalize" :> Obj(hook)) @@ @], Undef)
       ELSE Ret(st, Undef)
\* the body of the hash / HMAC branch of applyHook, inside its try
HashBranch(st, a) ==
    LET h == st.heap
        p == ProtoOf(h, a[1])
        gp == IF Truthy(p) THEN ProtoOf(h, p) ELSE Undef
        shape == /\ Truthy(p) /\ HasOwn(h, p, "$super") /\ HasOwn(h, p, "_doFinalize")
                 /\ Truthy(gp) /\ HasOwn(h, gp, "finalize")
    IN IF shape /\ FinalizeGuard(st, h[gp.s].own["finalize"])
       THEN Ret(PatchSlot(st, gp.s, "finalize", "finalize"), Undef)
       ELSE Ret(st, Undef)

\* a length test that also lets a container of two values through
DecContainerFrom2(n) == n.t = "num" /\ n.n >= 2
\* arguments[1].length === 3
DecContainerLength(n) == n = Num(3)

\* the same wrapper with the hash branch tried after the other two instead of in their place
ApplyHookNoChain(st, thisv, a) ==
    LET s0 == Enter(st, "apply", thisv, a)
        h == s0.heap
        common == Len(a) = 2 /\ Truthy(a[1]) /\ Truthy(a[2])
        encOuter == common /\ TypeofObject(h, a[2]) /\ Get(h, a[2], "length") = Num(1) /\ hasEncryptProp(h, Elem(h, a[2], 0))
        decOuter == common /\ TypeofObject(h, a[2]) /\ DecContainerLength(Get(h, a[2], "length")) /\ hasDecryptProp(h, DecKeyOf(h, a[2]))
        hashOuter == common /\ TypeofObject(h, a[1]) /\ TypeofObject(h, a[2])
        CallThrough(b) == IF Threw(b) THEN Escaped(b)
                          ELSE CallMethod(Through(b.st, thisv, a), Obj("native_apply"), "call", <<thisv>> \o a)
        ThenHash(b) == IF ~Threw(b) /\ hashOuter THEN CallThrough(HashBranch(b.st, a)) ELSE CallThrough(b)
    IN Leave(ThenHash(IF encOuter THEN EncBranch(s0, thisv, a)
                      ELSE IF decOuter THEN DecBranch(s0, thisv, a)
                      ELSE Ret(s0, Undef)))

\* const applyHook = function () {...}
ApplyHook(st, thisv, a) ==
    LET s0 == Enter(st, "apply", thisv, a)
        h == s0.heap
        common == Len(a) = 2 /\ Truthy(a[1]) /\ Truthy(a[2])
        encOuter == common /\ TypeofObject(h, a[2]) /\ Get(h, a[2], "length") = Num(1) /\ hasEncryptProp(h, Elem(h, a[2], 0))
        decOuter == common /\ TypeofObject(h, a[2]) /\ DecContainerLength(Get(h, a[2], "length")) /\ hasDecryptProp(h, DecKeyOf(h, a[2]))
        hashOuter == common /\ TypeofObject(h, a[1]) /\ TypeofObject(h, a[2])
        \* return temp_apply.call(this, ...arguments), reached unless a branch threw
        CallThrough(b) == IF Threw(b) THEN Escaped(b)
                          ELSE CallMethod(Through(b.st, thisv, a), Obj("native_apply"), "call", <<thisv>> \o a)
    IN Leave(CallThrough(IF encOuter THEN EncBranch(s0, thisv, a)
                         ELSE IF decOuter THEN DecBranch(s0, thisv, a)
                         ELSE IF hashOuter THEN HashBranch(s0, a)
                         ELSE Ret(s0, Undef)))

\* const callHook = function () {...}
CallHook(st, thisv, a) ==
    LET s0 == Enter(st, "call", thisv, a)
        h == s0.heap
        p == ProtoOf(h, a[1])
        gp == ProtoOf(h, p)
        sig == Len(a) = 1 /\ Truthy(a[1]) /\ Truthy(p) /\ TypeofObject(h, p) /\ hasRSAProp(h, p)
        both == /\ HasProtoAccessor(h, p) /\ Truthy(gp)
                /\ HasOwn(h, gp, "encrypt") /\ HasOwn(h, gp, "decrypt")
        sE == IF EncryptGuard(s0, h[gp.s].own["encrypt"]) THEN PatchSlot(s0, gp.s, "encrypt", "encrypt") ELSE s0
        sD == IF DecryptGuard(sE, sE.heap[gp.s].own["decrypt"]) THEN PatchSlot(sE, gp.s, "decrypt", "decrypt") ELSE sE
        s1 == IF sig /\ both THEN sD ELSE s0
    IN Leave(NativeCall(Through(s1, thisv, a), thisv, a))

RECURSIVE EmitAll(_, _, _, _)
\* console.log(label, ...args): one line for each value, one for the label alone
EmitAll(st, cat, tag, args) ==
    IF args = <<>> THEN st
    ELSE EmitAll(Emit(st, cat, tag, args[1]), cat, tag, Tail(args))
LogData(st, cat, tag, args) == IF args = <<>> THEN Emit(st, cat, tag, Undef) ELSE EmitAll(st, cat, tag, args)

\* the length of what hash.toString() returned
LengthOf(h, v) == IF v.t = "str" THEN Num(Len(v.d)) ELSE IF Nullish(v) THEN Undef ELSE Get(h, v, "length")

\* the same test answered by an inherited init as well
HasInitInChain(h, thisv) == thisv.t = "obj" /\ InChain(h, thisv.s, "init")
\* Object.hasOwn(this, "init")
HasInit(h, thisv) == HasOwn(h, thisv, "init")

\* const finalizeHook = function () {...}, closing over temp_finalize
FinalizeHook(st, orig, thisv, args) ==
    LET cat == "HASH_HMAC"
        Length(t2, hash) ==
            IF Threw(t2) \/ Nullish(t2.out.v) THEN Ret(t2.st, hash)
            ELSE Ret(Emit(t2.st, cat, "hashLength", LengthOf(t2.st.heap, t2.out.v)), hash)
        Text(t1, hash) ==
            IF Threw(t1) THEN Ret(t1.st, hash)
            ELSE Length(CallMethod(Emit(t1.st, cat, "hash", t1.out.v), hash, "toString", <<>>), hash)
        Logged(r) ==
            IF Threw(r) THEN r
            ELSE Text(CallMethod(LogData(Emit(r.st, cat, "header", Undef), cat, "data", args),
                                 r.out.v, "toString", <<>>), r.out.v)
    IN Leave(IF Nullish(thisv) THEN Escaped(Throw(Enter(st, "finalize", thisv, args), TypeError))
             ELSE IF HasInit(st.heap, thisv)
                  THEN CallMethod(Through(Enter(st, "finalize", thisv, args), thisv, args), orig, "call", <<thisv>> \o args)
                  ELSE Logged(CallMethod(Through(Enter(st, "finalize", thisv, args), thisv, args), orig, "call", <<thisv>> \o args)))

\* the original called as a plain function, without the receiver
BoundCallNoReceiver(st, orig, thisv, args) == CallValue(Through(st, Undef, args), orig, Undef, args)
\* temp.bind(this, ...arguments)(): the captured original on the wrapper's receiver and arguments
BoundCall(st, orig, thisv, args) == CallValue(Through(st, thisv, args), orig, thisv, args)

\* const encryptHook = function () {...}, closing over temp_encrypt
EncryptHook(st, orig, thisv, args) ==
    LET cat == "ASYM_ENCRYPT"
        Base64Of(text) == Str(IF text.t = "str" THEN hexToBase64RSA(text.d) ELSE <<>>)
        Texts(s, text) == IF Nullish(text) THEN Ret(s, text)
                          ELSE Ret(Emit(s, cat, "ciphertextBase64", Base64Of(text)), text)
        Key(pk, text) ==
            IF Threw(pk) THEN Ret(pk.st, text)
            ELSE Texts(Emit(LogData(Emit(pk.st, cat, "publicKey", pk.out.v), cat, "data", args),
                            cat, "ciphertextHex", text), text)
        Logged(r) == IF Threw(r) THEN r
                     ELSE Key(CallMethod(Emit(r.st, cat, "header", Undef), thisv, "getPublicKey", <<>>), r.out.v)
    IN Leave(Logged(BoundCall(Enter(st, "encrypt", thisv, args), orig, thisv, args)))

\* const decryptHook = function () {...}, closing over temp_decrypt
DecryptHook(st, orig, thisv, args) ==
    LET cat == "ASYM_DECRYPT"
        arg == IF args = <<>> THEN Undef ELSE args[1]
        Base64Of(text) == Str(IF text.t = "str" THEN hexToBase64RSA(text.d) ELSE <<>>)
        Texts(s, text) == IF Nullish(arg) THEN Ret(s, text)
                          ELSE Ret(Emit(Emit(s, cat, "ciphertextBase64", Base64Of(arg)), cat, "plaintext", text), text)
        Key(pk, text) == IF Threw(pk) THEN Ret(pk.st, text)
                         ELSE Texts(Emit(pk.st, cat, "privateKey", pk.out.v), text)
        Logged(r) == IF Threw(r) THEN r
                     ELSE Key(CallMethod(Emit(r.st, cat, "header", Undef), thisv, "getPrivateKey", <<>>), r.out.v)
    IN Leave(Logged(BoundCall(Enter(st, "decrypt", thisv, args), orig, thisv, args)))

Invoke(st, f, thisv, args) ==
    CASE f = "toStringHook" -> ToStringHook(st, thisv)
      [] f = "applyHook" -> ApplyHook(st, thisv, args)
      [] f = "callHook" -> CallHook(st, thisv, args)
      [] f \in DOMAIN st.closure /\ st.closure[f].kind = "finalize" -> FinalizeHook(st, st.closure[f].orig, thisv, args)
      [] f \in DOMAIN st.closure /\ st.closure[f].kind = "encrypt" -> EncryptHook(st, st.closure[f].orig, thisv, args)
      [] f \in DOMAIN st.closure /\ st.closure[f].kind = "decrypt" -> DecryptHook(st, st.closure[f].orig, thisv, args)
      [] f = "native_toString" -> NativeToString(st, thisv)
      [] f = "native_apply" -> NativeApply(st, thisv, args)
      [] f = "native_call" -> NativeCall(st, thisv, args)
      [] OTHER -> ProgramFn(st, f, thisv, args)

(***************************************************************************)
(* The debugger page (src/backend/static/js/debug.js): the globals of the  *)
(* polling fallback, the sockets initWebSocket has created, the intervals  *)
(* and timeouts the browser holds, and the server's paused events.  null   *)
(* is 0; session identifiers are the numbers of Sessions; the sockets are  *)
(* numbered in the order of their creation and AppState.socket is the      *)
(* number of the last one.                                                 *)
(***************************************************************************)
Sessions == {1, 2}

Max(a, b) == IF a >= b THEN a ELSE b

\* debug.js lines 8-19 and the empty PauseStore of line 115
DebugGlobals ==
    [currentDebugSession |-> 0, lastPausedSeq |-> 0, debugPollTimer |-> 0,
     wsFailureCount |-> 0, pollEnabled |-> FALSE, wsHealthy |-> TRUE,
     PauseStore |-> [s \in {0} \cup Sessions |-> <<>>]]

\* AppState of the page (part_001 lines 8-11)
AppGlobals == [socket |-> 0, currentSession |-> 0]

\* what the browser and the server hold for the page: the sockets that are
\* connected, the sockets debug.js has bound its event handlers to, the
\* live intervals, the pending 10 s timeouts, the requests of
\* tryFetchLastEvent under way (how many for each session), the paused
\* events under way on the socket, the server's last paused event per
\* session, the number of times the debugging was started, and the paused
\* events handled since the last start (n counts the times one event was)
NoTraffic ==
    [connected |-> {}, bound |-> {}, intervals |-> {}, timeouts |-> 0,
     fetches |-> [s \in Sessions |-> 0], emitted |-> {},
     lastEvent |-> [s \in Sessions |-> 0], starts |-> 0, handled |-> {}]

\* one page: the globals of debug.js (d), the browser and server (n), AppState (a)
Page == [d |-> debug, n |-> net, a |-> app]

\* debug.js lines 153-163
startPolling(p) ==
    IF p.d.pollEnabled \/ p.d.debugPollTimer # 0 THEN p
    ELSE LET id == CHOOSE i \in 1..(Cardinality(p.n.intervals) + 1) : i \notin p.n.intervals
         IN [p EXCEPT !.d.pollEnabled = TRUE, !.d.debugPollTimer = id,
                      !.n.intervals = @ \cup {id}]

\* stopPolling without the reset of the flag
stopPollingKeepingFlag(p) ==
    IF ~p.d.pollEnabled \/ p.d.debugPollTimer = 0 THEN p
    ELSE [p EXCEPT !.n.intervals = @ \ {p.d.debugPollTimer}, !.d.debugPollTimer = 0]

\* debug.js lines 165-174
stopPolling(p) ==
    IF ~p.d.pollEnabled \/ p.d.debugPollTimer = 0 THEN p
    ELSE [p EXCEPT !.n.intervals = @ \ {p.d.debugPollTimer}, !.d.debugPollTimer = 0,
                   !.d.pollEnabled = FALSE]

\* debug.js lines 125-132
onWebSocketConnect(p) ==
    LET q == [p EXCEPT !.d.wsFailureCount = 0, !.d.wsHealthy = TRUE]
    IN IF q.d.pollEnabled THEN stopPolling(q) ELSE q

\* debug.js lines 134-141
onWebSocketError(p) ==
    LET q == [p EXCEPT !.d.wsFailureCount = @ + 1, !.d.wsHealthy = FALSE]
    IN IF q.d.wsFailureCount >= 3 /\ q.d.currentDebugSession # 0 /\ ~q.d.pollEnabled
       THEN startPolling(q) ELSE q

\* debug.js lines 143-151: the handler itself, which arms the timeout
onWebSocketDisconnect(p) ==
    [p EXCEPT !.d.wsHealthy = FALSE, !.n.timeouts = @ + 1]

\* debug.js lines 146-150: the callback of the timeout
disconnectTimeout(p) ==
    IF ~p.d.wsHealthy /\ p.d.currentDebugSession # 0 /\ ~p.d.pollEnabled
    THEN startPolling(p) ELSE p

\* debug.js lines 529-671
startDebugFromConfig(p) ==
    IF p.a.currentSession = 0 THEN p
    ELSE LET q == IF p.a.socket # 0
                  THEN IF p.a.socket \in p.n.connected
                       THEN [p EXCEPT !.n.bound = @ \cup {p.a.socket}, !.d.wsHealthy = TRUE,
                                      !.d.wsFailureCount = 0]
                       ELSE [p EXCEPT !.n.bound = @ \cup {p.a.socket}, !.d.wsHealthy = FALSE]
                  ELSE startPolling([p EXCEPT !.d.wsHealthy = FALSE, !.d.wsFailureCount = 999])
         IN [q EXCEPT !.d.currentDebugSession = p.a.currentSession,
                      !.d.lastPausedSeq = 0, !.d.wsFailureCount = 0,
                      !.n.starts = @ + 1, !.n.handled = {}]

\* debug.js lines 673-741, with PauseStore.append of line 121
handleDebugPaused(p, data) ==
    [p EXCEPT !.d.PauseStore[p.a.currentSession] =
                  IF Len(@) + 1 > 200 THEN Tail(Append(@, data.seq)) ELSE Append(@, data.seq),
              !.d.lastPausedSeq = Max(@, data.seq),
              !.n.handled = @ \cup {[session |-> data.session, seq |-> data.seq, by |-> data.by,
                                      n |-> 1 + Cardinality({h \in @ : h.session = data.session /\ h.seq = data.seq})]}]

\* debug.js lines 761-795
handleDebugStopped(p) == stopPolling([p EXCEPT !.d.currentDebugSession = 0])

\* debug.js lines 360-403
deleteSelectedSessions(p, ids) ==
    [p EXCEPT !.d.PauseStore = [s \in DOMAIN @ |-> IF s \in ids THEN <<>> ELSE @[s]],
              !.d.currentDebugSession = IF @ \in ids THEN 0 ELSE @]

\* debug.js lines 1238-1240: the part of tryFetchLastEvent before the await
tryFetchLastEvent(p) ==
    IF p.d.currentDebugSession = 0 THEN p
    ELSE [p EXCEPT !.n.fetches[p.d.currentDebugSession] = @ + 1]

\* debug.js lines 1241-1247: the part after the await, on the server's answer
fetchedLastEvent(p, sid) ==
    LET seq == p.n.lastEvent[sid]
        q == [p EXCEPT !.n.fetches[sid] = @ - 1]
    IN IF seq = 0 THEN q
       ELSE IF seq <= q.d.lastPausedSeq THEN q
       ELSE handleDebugPaused(q, [session |-> sid, seq |-> seq, by |-> "poll"])

Becomes(q) ==
    /\ debug' = q.d /\ net' = q.n /\ app' = q.a
    /\ UNCHANGED <<heap, nativeMap, closure, nextHook, log, act, calls, last, probe, second>>
    /\ UNCHANGED <<analysis, streams, loader>>

\* part_001 lines 356-366: initWebSocket runs with the client library
\* loaded.  Nothing in it looks at AppState.socket, and the page calls it
\* from the retries of tryInitWebSocket and from the DOMContentLoaded
\* handler, so it runs at most twice
SocketCreated ==
    /\ app.socket < 2
    /\ Becomes([Page EXCEPT !.a.socket = @ + 1])

\* part_001 lines 298 and 321: a session is created or opened
SessionChosen ==
    \E sid \in Sessions :
        /\ app.currentSession # sid
        /\ Becomes([Page EXCEPT !.a.currentSession = sid])

\* part_001 lines 370-376: a socket connects
SocketConnect ==
    \E k \in (1..app.socket) \ net.connected :
        Becomes(onWebSocketConnect([Page EXCEPT !.n.connected = @ \cup {k}]))

\* part_001 lines 382-388: an attempt of a socket to connect fails
SocketConnectError ==
    \E k \in (1..app.socket) \ net.connected :
        /\ debug.wsFailureCount < MaxFailures
        /\ Becomes(onWebSocketError(Page))

\* part_001 lines 391-397: a socket loses its connection, and the events
\* under way on it are lost with it
SocketDisconnect ==
    \E k \in net.connected :
        /\ net.timeouts < MaxTimeouts
        /\ Becomes(onWebSocketDisconnect([Page EXCEPT !.n.connected = @ \ {k},
                                                      !.n.emitted = {e \in @ : e.socket # k}]))

\* ten seconds after a disconnect
DisconnectTimeout ==
    /\ net.timeouts > 0
    /\ Becomes(disconnectTimeout([Page EXCEPT !.n.timeouts = @ - 1]))

\* part_001 line 324: the debugging of the chosen session is started
StartDebug ==
    /\ net.starts < MaxStarts
    /\ Becomes(startDebugFromConfig(Page))

\* the server reports the end of the debugging on a socket
DebugStopped ==
    /\ net.connected \cap net.bound # {}
    /\ Becomes(handleDebugStopped(Page))

\* the user deletes the selected sessions
DeleteSessions ==
    \E ids \in (SUBSET Sessions) \ {{}} :
        /\ \E s \in ids : debug.currentDebugSession = s \/ debug.PauseStore[s] # <<>>
        /\ Becomes(deleteSelectedSessions(Page, ids))

\* the interval of startPolling fires (every 3 s)
PollTick ==
    /\ net.intervals # {}
    /\ \A s \in Sessions : net.fetches[s] < MaxFetches
    /\ debug.currentDebugSession # 0
    /\ Becomes(tryFetchLastEvent(Page))

\* the server answers a request of tryFetchLastEvent
PollAnswer ==
    \E sid \in Sessions : net.fetches[sid] > 0 /\ Becomes(fetchedLastEvent(Page, sid))

\* the debugged browser pauses: the server keeps the event as the session's
\* last one and emits it on the connected sockets that listen for it
ServerPause ==
    /\ debug.currentDebugSession # 0
    /\ LET sid == debug.currentDebugSession
           seq == net.lastEvent[sid] + 1
       IN /\ seq <= MaxSeq
          /\ Becomes([Page EXCEPT !.n.lastEvent[sid] = seq,
                                  !.n.emitted = @ \cup {[socket |-> k, session |-> sid, seq |-> seq] :
                                                          k \in net.connected \cap net.bound}])

\* a debug_paused event arrives on a socket
SocketPaused ==
    \E e \in net.emitted :
        Becomes(handleDebugPaused([Page EXCEPT !.n.emitted = @ \ {e}],
                                  [session |-> e.session, seq |-> e.seq, by |-> "socket"]))

\* the notifications, timeouts, requests and actions of the user
PollingSteps ==
    \/ SessionChosen
    \/ SocketConnect \/ SocketConnectError \/ SocketDisconnect \/ DisconnectTimeout
    \/ StartDebug \/ DebugStopped \/ DeleteSessions
    \/ PollTick \/ PollAnswer

\* the page while the debugged browser never pauses
PollingNext == SocketCreated \/ PollingSteps

\* initWebSocket runs once
OneSocketCreated == app.socket = 0 /\ SocketCreated

\* the page with one socket and a debugged browser that pauses
DebugNext == OneSocketCreated \/ PollingSteps \/ ServerPause \/ SocketPaused

(***************************************************************************)
(* The AI analysis (src/backend/static/js/analysis.js): the globals        *)
(* isAnalyzing and analysisContent, and the activations of                 *)
(* startAIAnalysis.  Every chunk of analysisContent is the number of the   *)
(* activation whose reader delivered it, or 0 for a chunk pushed on the    *)
(* socket.                                                                 *)
(***************************************************************************)
\* analysis.js lines 8-9
AnalysisGlobals == [isAnalyzing |-> FALSE, analysisContent |-> <<>>]

\* no activation of startAIAnalysis yet, no socket handlers bound (lines
\* 240-271 run 1 s after DOMContentLoaded), no chunk pushed on the socket
NoStreams == [runs |-> <<>>, listening |-> FALSE, pushed |-> 0]

\* analysis.js lines 111-115
appendAnalysisContent(g, from) == [g EXCEPT !.analysisContent = Append(@, from)]

\* analysis.js lines 133-155
finishAnalysis(g) == [g EXCEPT !.isAnalyzing = FALSE]

\* analysis.js lines 157-178
stopAnalysis(g) == IF ~g.isAnalyzing THEN g ELSE [g EXCEPT !.isAnalyzing = FALSE]

Analysing(g, r) ==
    /\ analysis' = g /\ streams' = r
    /\ UNCHANGED <<heap, nativeMap, closure, nextHook, log, act, calls, last, probe, second>>
    /\ UNCHANGED <<debug, net, app, loader>>

\* analysis.js lines 14-57: startAIAnalysis up to the request it awaits,
\* called from the page or by the ai_analysis_start event (lines 249-253)
StartAnalysis ==
    /\ Len(streams.runs) < MaxAnalyses
    /\ IF analysis.isAnalyzing \/ app.currentSession = 0
       THEN Analysing(analysis, streams)
       ELSE Analysing([isAnalyzing |-> TRUE, analysisContent |-> <<>>],
                      [streams EXCEPT !.runs = Append(@, [at |-> "fetching", read |-> 0])])

\* analysis.js lines 59-64 and 104-108: the request is answered, with a
\* body to read or with a failure, which the catch turns into stopAnalysis
AnalysisAnswered ==
    \E k \in 1..Len(streams.runs), ok \in BOOLEAN :
        /\ streams.runs[k].at = "fetching"
        /\ IF ok
           THEN Analysing(analysis, [streams EXCEPT !.runs[k].at = "reading"])
           ELSE Analysing(stopAnalysis(analysis), [streams EXCEPT !.runs[k].at = "over"])

\* analysis.js lines 66-93: the reader of activation k delivers a line
\* with content
AnalysisChunkRead ==
    \E k \in 1..Len(streams.runs) :
        /\ streams.runs[k].at = "reading"
        /\ streams.runs[k].read < MaxChunks
        /\ Analysing(appendAnalysisContent(analysis, k),
                     [streams EXCEPT !.runs[k].read = @ + 1])

\* analysis.js lines 69, 81-84 and 102: the body of activation k ends, or
\* its line [DONE] arrives
AnalysisStreamEnds ==
    \E k \in 1..Len(streams.runs) :
        /\ streams.runs[k].at = "reading"
        /\ Analysing(finishAnalysis(analysis), [streams EXCEPT !.runs[k].at = "over"])

\* analysis.js lines 104-108: the read of activation k fails
AnalysisReadFails ==
    \E k \in 1..Len(streams.runs) :
        /\ streams.runs[k].at = "reading"
        /\ Analysing(stopAnalysis(analysis), [streams EXCEPT !.runs[k].at = "over"])

\* the stop button of the analysis page
StopClicked ==
    /\ analysis.isAnalyzing
    /\ Analysing(stopAnalysis(analysis), streams)

\* analysis.js lines 240-271: the socket's handlers are bound
ListenersBound ==
    /\ app.socket # 0 /\ ~streams.listening
    /\ Analysing(analysis, [streams EXCEPT !.listening = TRUE])

\* analysis.js lines 255-259
SocketChunk ==
    /\ streams.listening /\ streams.pushed < MaxChunks
    /\ Analysing(appendAnalysisContent(analysis, 0), [streams EXCEPT !.pushed = @ + 1])

\* analysis.js lines 261-263
SocketComplete ==
    /\ streams.listening /\ analysis.isAnalyzing
    /\ Analysing(finishAnalysis(analysis), streams)

\* analysis.js lines 265-268
SocketError ==
    /\ streams.listening /\ analysis.isAnalyzing
    /\ Analysing(stopAnalysis(analysis), streams)

AnalysisNext ==
    \/ OneSocketCreated \/ SessionChosen \/ ListenersBound
    \/ StartAnalysis \/ AnalysisAnswered \/ AnalysisChunkRead \/ AnalysisStreamEnds
    \/ AnalysisReadFails \/ StopClicked
    \/ SocketChunk \/ SocketComplete \/ SocketError

(***************************************************************************)
(* The creation of the socket (src/unnamed/part_001): the script's own     *)
(* call of tryInitWebSocket, its retries and the DOMContentLoaded handler, *)
(* while the Socket.IO client library may get defined at any moment.       *)
(***************************************************************************)
\* part_001 line 745
maxWsInitAttempts == 50

\* io is not defined yet, the script has not reached its line 760, no retry
\* is pending, DOMContentLoaded has not fired; wsInitAttempts of line 744
Loading ==
    [io |-> FALSE, evaluated |-> FALSE, retry |-> FALSE, ready |-> FALSE,
     wsInitAttempts |-> 0]

\* part_001 lines 356-414
initWebSocket(q) ==
    IF ~q.l.io THEN q ELSE [q EXCEPT !.a.socket = @ + 1]

\* part_001 lines 746-758
tryInitWebSocket(q) ==
    IF q.l.io THEN initWebSocket(q)
    ELSE IF q.l.wsInitAttempts < maxWsInitAttempts
         THEN [q EXCEPT !.l.wsInitAttempts = @ + 1, !.l.retry = TRUE]
         ELSE q

Loaded(q) ==
    /\ app' = q.a /\ loader' = q.l
    /\ UNCHANGED <<heap, nativeMap, closure, nextHook, log, act, calls, last, probe, second>>
    /\ UNCHANGED <<debug, net, analysis, streams>>

\* the Socket.IO client library is evaluated: io is defined from now on
ClientLibraryLoaded ==
    /\ ~loader.io
    /\ Loaded([a |-> app, l |-> [loader EXCEPT !.io = TRUE]])

\* part_001 line 760
ScriptEvaluated ==
    /\ ~loader.evaluated
    /\ Loaded(tryInitWebSocket([a |-> app, l |-> [loader EXCEPT !.evaluated = TRUE]]))

\* part_001 line 752: the timeout of a retry runs out
RetryFires ==
    /\ loader.retry
    /\ Loaded(tryInitWebSocket([a |-> app, l |-> [loader EXCEPT !.retry = FALSE]]))

\* part_001 lines 905-911
DOMContentLoaded ==
    /\ loader.evaluated /\ ~loader.ready
    /\ LET q == [a |-> app, l |-> [loader EXCEPT !.ready = TRUE]]
       IN Loaded(IF q.a.socket = 0 THEN initWebSocket(q) ELSE q)

SocketNext == ClientLibraryLoaded \/ ScriptEvaluated \/ RetryFires \/ DOMContentLoaded

(***************************************************************************)
(* The state once the script has run, and the instrumented program's       *)
(* calls.                                                                  *)
(***************************************************************************)
\* the page before the script runs
Pristine == [heap |-> PristineHeap, nativeMap |-> NoOwn, closure |-> NoOwn, nextHook |-> 1,
             log |-> <<>>, act |-> 0, stack |-> <<>>, esc |-> 0, inv |-> <<>>, deep |-> 0,
             got |-> <<>>, sent |-> <<>>, failed |-> {}]

\* the script: the three primitives are replaced and registered
Installed ==
    LET s1 == makeNative([Pristine EXCEPT !.heap["FunctionPrototype"].own["toString"] = Obj("toStringHook")],
                         "toStringHook", Obj("native_toString"))
        s2 == [makeNative(s1, "applyHook", Obj("native_apply"))
                  EXCEPT !.heap["FunctionPrototype"].own["apply"] = Obj("applyHook")]
        s3 == [makeNative(s2, "callHook", Obj("native_call"))
                  EXCEPT !.heap["FunctionPrototype"].own["call"] = Obj("callHook")]
    IN s3

\* the run state a call of the program starts from
Start == [heap |-> heap, nativeMap |-> nativeMap, closure |-> closure, nextHook |-> nextHook,
          log |-> log, act |-> act, stack |-> <<>>, esc |-> 0, inv |-> <<>>, deep |-> 0,
          got |-> <<>>, sent |-> <<>>, failed |-> {}]

\* no function of the extractor has been exercised on its own
NoProbe == [fn |-> "none"]
\* the script has run once: there is no second _nativeMap
NoSecond == [done |-> FALSE, nativeMap |-> NoOwn]

NoCall == [op |-> "none", f |-> "", thisv |-> Undef, args |-> <<>>, out |-> [k |-> "ret", v |-> Undef],
           ref |-> [k |-> "ret", v |-> Undef], esc |-> 0, inv |-> <<>>, act0 |-> 0, log0 |-> 0,
           deep |-> 0, got |-> <<>>, sent |-> <<>>, failed |-> {}]

Init ==
    /\ heap = Installed.heap
    /\ nativeMap = Installed.nativeMap
    /\ closure = Installed.closure
    /\ nextHook = Installed.nextHook
    /\ log = Installed.log
    /\ act = Installed.act
    /\ calls = 0
    /\ last = NoCall
    /\ probe = NoProbe
    /\ second = NoSecond
    /\ debug = DebugGlobals
    /\ net = NoTraffic
    /\ app = AppGlobals
    /\ analysis = AnalysisGlobals
    /\ streams = NoStreams
    /\ loader = Loading

\* the call returned or threw: its effects and what it did are recorded
Commit(op, f, thisv, args, r, ref) ==
    /\ heap' = r.st.heap
    /\ nativeMap' = r.st.nativeMap
    /\ closure' = r.st.closure
    /\ nextHook' = r.st.nextHook
    /\ log' = r.st.log
    /\ act' = r.st.act
    /\ calls' = calls + 1
    /\ last' = [op |-> op, f |-> f, thisv |-> thisv, args |-> args, out |-> r.out, ref |-> ref.out,
                esc |-> r.st.esc, inv |-> r.st.inv, act0 |-> act + 1, log0 |-> Len(log),
                deep |-> r.st.deep, got |-> r.st.got, sent |-> r.st.sent, failed |-> r.st.failed]
    /\ probe' = probe
    /\ UNCHANGED outside

\* the applications f.apply(thisArg, container) the program makes
ApplyInputs ==
    {<<"fnAnon", Obj("cipher"), Obj("argsEncA")>>, <<"fnAnon", Obj("cipher"), Obj("argsEncBad")>>,
     <<"fnAnon", Obj("plain"), Obj("argsEncA")>>,
     <<"fnAnon", Obj("cipher"), Obj("arrEncA")>>, <<"fnArrow", Obj("cipher"), Obj("argsEncA")>>,
     <<"fnNamed", Obj("cipher"), Obj("argsEncA")>>, <<"fnThrow", Obj("cipher"), Obj("argsEncA")>>,
     <<"fnAnon", Obj("hasher1"), Obj("argsEncA")>>, <<"fnArrow", Obj("hasher1"), Obj("argsEncA")>>,
     <<"fnNamed", Obj("cipher"), Obj("argsDecOK")>>, <<"fnNamed", Obj("cipher"), Obj("argsDecUndef")>>,
     <<"fnNamed", Obj("cipher"), Obj("argsDecIv")>>, <<"fnNamed", Obj("cipher"), Obj("argsDecMode")>>,
     <<"fnAnon", Obj("cipher"), Obj("argsDecOK")>>, <<"fnNamed", Obj("cipher"), Obj("argsDecOne")>>,
     <<"fnNamed", Obj("cipher"), Obj("argsDecThird")>>, <<"fnNamed", Obj("plain"), Obj("argsDecOK")>>,
     <<"fnNamed", Obj("hasher1"), Obj("argsDecOK")>>,
     <<"fnAnon", Obj("hasher1"), Obj("argsTwo")>>, <<"fnAnon", Obj("hasher2"), Obj("argsTwo")>>,
     <<"fnAnon", Obj("plain"), Obj("argsTwo")>>, <<"fnAnon", Null, Obj("argsTwo")>>,
     <<"fnThrow", Obj("plain"), Obj("argsTwo")>>, <<"fnAnon", Obj("cipher"), Undef>>,
     <<"fnNamed", Obj("cipher"), Obj("argsTwoKey")>>,
     <<"fnAnon", Obj("plain")>>}

\* the calls f.call(thisArg, ...) the program makes
CallInputs ==
    {<<"getPublicKey", Obj("rsaKey")>>, <<"getPublicKey", Obj("rsaHalf")>>, <<"fnAnon", Obj("plain")>>,
     <<"fnAnon", Obj("rsaKey"), Num(1)>>, <<"fnThrow", Obj("plain")>>, <<"fnAnon">>,
     <<"fnAnon", Obj("hasher1"), Obj("emptyObj")>>}

\* the method calls recv.name(...) the program makes
MethodInputs ==
    {<<"hasher1", "finalize">>, <<"hasher1", "finalize", Obj("encCfgA")>>, <<"hasher2", "finalize">>,
     <<"rsaKey", "encrypt", Str(<<"h","i">>)>>, <<"rsaKey", "decrypt", Str(<<"0","a","1","b">>)>>,
     <<"rsaKey", "decrypt">>}

\* the program evaluates f.apply(...)
ProgramApply ==
    /\ calls < MaxCalls
    /\ nextHook < Len(HookPool)
    /\ \E in \in ApplyInputs :
          Commit("apply", in[1], Obj(in[1]), Tail(in),
                 CallMethod(Start, Obj(in[1]), "apply", Tail(in)),
                 CallMethod(Pristine, Obj(in[1]), "apply", Tail(in)))

\* the program evaluates f.call(...)
ProgramCall ==
    /\ calls < MaxCalls
    /\ nextHook < Len(HookPool)
    /\ \E in \in CallInputs :
          Commit("call", in[1], Obj(in[1]), Tail(in),
                 CallMethod(Start, Obj(in[1]), "call", Tail(in)),
                 CallMethod(Pristine, Obj(in[1]), "call", Tail(in)))

\* the program evaluates recv.name(...)
ProgramMethod ==
    /\ calls < MaxCalls
    /\ nextHook < Len(HookPool)
    /\ \E in \in MethodInputs :
          Commit("method", in[2], Obj(in[1]), SubSeq(in, 3, Len(in)),
                 CallMethod(Start, Obj(in[1]), in[2], SubSeq(in, 3, Len(in))),
                 CallMethod(Pristine, Obj(in[1]), in[2], SubSeq(in, 3, Len(in))))

Next == ProgramApply \/ ProgramCall \/ ProgramMethod

Spec == Init /\ [][Next]_vars

(***************************************************************************)
(* The script run a second time in the same page (injected again, or       *)
(* enabled twice): a new closure with its own _nativeMap, _toString,       *)
(* temp_apply and temp_call, capturing what the three slots of             *)
(* Function.prototype hold at that moment.  The model follows the program  *)
(* up to the second run.                                                   *)
(***************************************************************************)
\* (function () {...})(): toString, apply and call are replaced and registered again
Reinstall ==
    /\ ~second.done
    /\ LET FP == "FunctionPrototype"
           s0 == [heap |-> heap, nativeMap |-> NoOwn]
           s1 == makeNative([s0 EXCEPT !.heap[FP].own["toString"] = Obj("toStringHook2")],
                            "toStringHook2", s0.heap[FP].own["toString"])
           s2 == [makeNative(s1, "applyHook2", s1.heap[FP].own["apply"])
                     EXCEPT !.heap[FP].own["apply"] = Obj("applyHook2")]
           s3 == [makeNative(s2, "callHook2", s2.heap[FP].own["call"])
                     EXCEPT !.heap[FP].own["call"] = Obj("callHook2")]
       IN /\ heap' = s3.heap
          /\ second' = [done |-> TRUE, nativeMap |-> s3.nativeMap]
    /\ UNCHANGED <<nativeMap, closure, nextHook, log, act, calls, last, probe, debug, net, app, analysis, streams, loader>>

ReinstallNext == (~second.done /\ Next) \/ Reinstall

ReinstallSpec == Init /\ [][ReinstallNext]_vars

(***************************************************************************)
(* The key/material extractor on its own: a behaviour hands one of its     *)
(* functions one input and records what it returned.  The page is as the   *)
(* script left it.                                                         *)
(***************************************************************************)
\* 32-bit words as CryptoJS holds them (signed), among them 0x01020304 and words with the sign bit set
WordSamples == {0, 16909060, 255, 2147483647, -1, -2, -559038737, -16777216, -2147483647 - 1}
WordArrays == UNION {[1..k -> WordSamples] : k \in 0..MaxWords}

\* wordsToHex(words, sigBytes) on an array of words and a count of significant bytes
ProbeWordsToHex ==
    /\ probe = NoProbe
    /\ \E ws \in WordArrays, n \in 0..(4 * MaxWords + 1) :
          probe' = [fn |-> "wordsToHex", ws |-> ws, n |-> n, out |-> wordsToHex(ws, n)]
    /\ UNCHANGED <<heap, nativeMap, closure, nextHook, log, act, calls, last, outside>>

\* bytes of captured material: the extremes, both sides of the sign bit, a letter
ByteSamples == {0, 1, 97, 127, 128, 255}
ByteStrings == UNION {[1..k -> ByteSamples] : k \in 0..MaxBytes}
RECURSIVE BytesToHex(_)
\* the hex rendering of a byte sequence, two lower-case digits for each byte
BytesToHex(x) == IF x = <<>> THEN <<>>
                 ELSE <<HexDigits[(x[1] \div 16) + 1], HexDigits[(x[1] % 16) + 1]>> \o BytesToHex(Tail(x))

\* hexToBase64(hex) on the hex rendering of a byte sequence
ProbeHexToBase64 ==
    /\ probe = NoProbe
    /\ \E x \in ByteStrings :
          probe' = [fn |-> "hexToBase64", x |-> x, hex |-> BytesToHex(x),
                    out |-> hexToBase64(Start, Str(BytesToHex(x))).out]
    /\ UNCHANGED <<heap, nativeMap, closure, nextHook, log, act, calls, last, outside>>

\* values found where a key is expected
KeySamples == {Undef, Null, Num(0), Num(7), Str(<<>>), Str(<<"a","b">>), Str(<<"k","e","y">>),
               Obj("keyWA"), Obj("ivWA"), Obj("hashWA"), Obj("emptyObj"), Obj("keyNoWords"), Obj("fnAnon")}
\* the page with one more WordArray, of the given words and significant bytes
WithKey(st, ws, n) ==
    [st EXCEPT !.heap = ("probeWords" :> MkArray([i \in 1..Len(ws) |-> Num(ws[i])]))
                        @@ ("probeKey" :> MkObj("WordArray", ("words" :> Obj("probeWords")) @@ ("sigBytes" :> Num(n))))
                        @@ @]
\* what the probe keeps of a formatKey(keyObj): how it completed and the views it returned
Views(r) == [fn |-> "formatKey", out |-> r.out, fk |-> r.fk]

\* the keys formatKey is exercised on: the sampled values, and WordArrays of sampled words
KeyProbes ==
    LET On(st) == {[st |-> st, key |-> v] : v \in KeySamples}
                  \cup {[st |-> WithKey(st, ws, n), key |-> Obj("probeKey")] :
                           ws \in WordArrays, n \in 0..(4 * MaxWords)}
    IN On(Start)

\* formatKey(keyObj) on a value, or on a WordArray of sampled words
ProbeFormatKey ==
    /\ probe = NoProbe
    /\ \E in \in KeyProbes : probe' = Views(formatKey(in.st, in.key)) @@ [key |-> in.key]
    /\ UNCHANGED <<heap, nativeMap, closure, nextHook, log, act, calls, last, outside>>

ExtractorNext == ProbeWordsToHex \/ ProbeHexToBase64 \/ ProbeFormatKey

ExtractorSpec == Init /\ [][ExtractorNext]_vars

(***************************************************************************)
(* The four signatures, stated on a call of the program: op is the         *)
(* primitive used, f the function it is used on, a the values passed to    *)
(* the primitive.                                                          *)
(***************************************************************************)
\* a container the wrapper takes for a call's arguments: an object with its own callee
HasCallee(h, v) == v.t = "obj" /\ h[v.s].kind # "function" /\ "callee" \in DOMAIN h[v.s].own
\* a genuine arguments object
IsArguments(h, v) == v.t = "obj" /\ h[v.s].kind = "arguments"
ExposesAll(h, v, ps) == v.t = "obj" /\ h[v.s].kind # "function" /\ \A p \in ps : InChain(h, v.s, p)
CipherEncryptShape == {"ciphertext", "key", "iv", "algorithm", "mode", "padding", "blockSize", "formatter"}
CipherDecryptShape == {"sigBytes", "words"}
RsaShape == {"constructor", "getPrivateBaseKey", "getPrivateBaseKeyB64", "getPrivateKey", "getPublicBaseKey",
             "getPublicBaseKeyB64", "getPublicKey", "parseKey", "parsePropertiesFrom"}

SigEncrypt(h, op, f, a) ==
    /\ op = "apply" /\ Len(a) = 2
    /\ a[1].t = "obj" /\ "$super" \in DOMAIN h[a[1].s].own
    /\ HasCallee(h, a[2]) /\ Len(h[a[2].s].elems) = 1
    /\ ExposesAll(h, h[a[2].s].elems[1], CipherEncryptShape)
    /\ EncCallerTest(FnSrc(f))
SigDecrypt(h, op, f, a) ==
    /\ op = "apply" /\ Len(a) = 2
    /\ a[1].t = "obj" /\ "$super" \in DOMAIN h[a[1].s].own
    /\ HasCallee(h, a[2]) /\ Len(h[a[2].s].elems) = 3
    /\ h[a[2].s].elems[1] = Num(2)
    /\ ExposesAll(h, h[a[2].s].elems[2], CipherDecryptShape)
    /\ ~Contains(FnSrc(f), S_functionParen)
SigHash(h, op, f, a) ==
    /\ op = "apply" /\ Len(a) = 2
    /\ a[1].t = "obj" /\ h[a[1].s].kind # "function"
    /\ a[2].t = "obj" /\ h[a[2].s].kind # "function"
    /\ LET p == h[a[1].s].proto
       IN /\ p # "null" /\ {"$super", "_doFinalize"} \subseteq DOMAIN h[p].own
          /\ h[p].proto # "null" /\ "finalize" \in DOMAIN h[h[p].proto].own
SigAsym(h, op, f, a) ==
    /\ op = "call" /\ Len(a) = 1
    /\ a[1].t = "obj" /\ h[a[1].s].proto # "null"
    /\ ExposesAll(h, Obj(h[a[1].s].proto), RsaShape)

\* the signatures the last call of the program satisfies
SigsOf(h, l) == {c \in {"SYM_ENCRYPT", "SYM_DECRYPT", "HASH_HMAC", "ASYM"} :
                    CASE c = "SYM_ENCRYPT" -> SigEncrypt(h, l.op, l.f, l.args)
                      [] c = "SYM_DECRYPT" -> SigDecrypt(h, l.op, l.f, l.args)
                      [] c = "HASH_HMAC" -> SigHash(h, l.op, l.f, l.args)
                      [] c = "ASYM" -> SigAsym(h, l.op, l.f, l.args)}
Intercepted(l) == l.op \in {"apply", "call"}
\* the log lines and the wrappers the wrapper activation of the last call produced itself
LinesOf(l) == {i \in DOMAIN log : log[i].act = l.act0}
PatchesOf(l) == {c \in DOMAIN closure : closure[c].by = l.act0}

(***************************************************************************)
(* C1: a call through the apply or call wrapper returns what the original  *)
(* primitive returns for the same receiver and arguments, and throws       *)
(* exactly when and what the original would throw.                         *)
(***************************************************************************)
C1_SameOutcomeAsPrimitive == Intercepted(last) => last.out = last.ref

(***************************************************************************)
(* C2: a failure inside the analysis of an intercepted call is caught and  *)
(* discarded: none leaves the wrapper, and the wrapper still reaches the   *)
(* call of the original primitive.                                         *)
(***************************************************************************)
C2_FailuresDiscarded ==
    Intercepted(last) => last.esc = 0 /\ (\E i \in DOMAIN last.inv : last.inv[i] = last.act0)

(***************************************************************************)
(* C3: an intercepted call that matches none of the four signatures emits  *)
(* no log line, installs no patch, and returns or throws as the unwrapped  *)
(* primitive does.                                                         *)
(***************************************************************************)
C3_UnmatchedIsTransparent ==
    (Intercepted(last) /\ SigsOf(heap, last) = {}) =>
        /\ LinesOf(last) = {}
        /\ PatchesOf(last) = {}
        /\ last.out = last.ref
\* a near miss of the decrypt signature (discriminant 1) passed through in silence
C3_Witness ==
    /\ last.op = "apply" /\ last.args = <<Obj("cipher"), Obj("argsDecOne")>>
    /\ SigsOf(heap, last) = {} /\ last.out = [k |-> "ret", v |-> Num(2)]

(***************************************************************************)
(* C4: an intercepted apply or call leaves the receiver and the argument   *)
(* list as they were: the function the primitive is used on, the receiver  *)
(* passed and the argument container keep every field and every element.   *)
(***************************************************************************)
\* the objects a call of the program hands to the wrapper
HandedOver(l) == {v \in {l.thisv} \cup {l.args[i] : i \in DOMAIN l.args} : v.t = "obj"}
C4_ReceiverAndArgumentsUntouched ==
    [][Intercepted(last') => \A v \in HandedOver(last') : heap'[v.s] = heap[v.s]]_vars
\* a hash-shaped apply patched finalize two levels up and left its receiver alone
C4_Witness ==
    /\ last.op = "apply" /\ last.args = <<Obj("hasher1"), Obj("argsTwo")>>
    /\ PatchesOf(last) # {}
    /\ heap["hasher1"] = PristineHeap["hasher1"] /\ heap["argsTwo"] = PristineHeap["argsTwo"]

(***************************************************************************)
(* C5: patching is idempotent: a method slot (finalize, encrypt, decrypt)  *)
(* gets one wrapper and one registry entry however many matching calls are *)
(* made; once the slot holds a registered wrapper, later calls change      *)
(* neither the slot nor the entries of the registry.                       *)
(***************************************************************************)
Slots == {<<"Hasher1", "finalize">>, <<"Hasher2", "finalize">>, <<"RSAKeyProto", "encrypt">>,
          <<"RSAKeyProto", "decrypt">>, <<"HalfProto", "encrypt">>}
SlotValue(h, sl) == h[sl[1]].own[sl[2]]
WrappersAt(cl, sl) == {c \in DOMAIN cl : cl[c].at = sl}
C5_PatchingIdempotent ==
    [][\A sl \in Slots :
          /\ Cardinality(WrappersAt(closure', sl)) <= 1
          /\ WrappersAt(closure', sl) # {} =>
                /\ WrappersAt(closure', sl) = {SlotValue(heap', sl).s}
                /\ Cardinality({w \in DOMAIN nativeMap' : w \in WrappersAt(closure', sl)}) = 1
          /\ NativeMapHas(Start, SlotValue(heap, sl)) =>
                /\ SlotValue(heap', sl) = SlotValue(heap, sl)
                /\ WrappersAt(closure', sl) = WrappersAt(closure, sl)
                /\ \A w \in DOMAIN nativeMap : w \in DOMAIN nativeMap' /\ nativeMap'[w] = nativeMap[w]]_vars
\* a second hash-shaped apply on a hasher whose finalize is already wrapped
C5_Witness ==
    /\ calls = 2 /\ last.op = "apply" /\ SigHash(heap, last.op, last.f, last.args)
    /\ last.args[1] = Obj("hasher1") /\ PatchesOf(last) = {}
    /\ Cardinality(WrappersAt(closure, <<"Hasher1", "finalize">>)) = 1

(***************************************************************************)
(* C6: the registry never holds two wrappers for the same original         *)
(* callable, also when that original is reachable through two prototype    *)
(* objects.                                                                *)
(***************************************************************************)
C6_OneRecordPerOriginal ==
    \A w1, w2 \in DOMAIN nativeMap : nativeMap[w1] = nativeMap[w2] => w1 = w2

(***************************************************************************)
(* C7: for every wrapper in the registry, decompiling the wrapper gives    *)
(* the text that decompiling its stored original gives.                    *)
(***************************************************************************)
\* v.toString() as the program would evaluate it now
Decompile(v) == CallMethod(Start, v, "toString", <<>>).out
C7_ReflectionInvariance ==
    \A w \in DOMAIN nativeMap : Decompile(Obj(w)) = Decompile(nativeMap[w])
\* the three primitives and the four lazily wrapped methods are all registered
C7_Witness ==
    /\ Cardinality(DOMAIN nativeMap) >= 5
    /\ \E w \in DOMAIN closure : closure[w].kind = "finalize"
    /\ \E w \in DOMAIN closure : closure[w].kind = "decrypt"
    /\ Decompile(Obj("applyHook")) = [k |-> "ret", v |-> Str(NativeSrc(N_apply))]

(***************************************************************************)
(* C8: the four signature predicates are pairwise disjoint: no intercepted *)
(* call satisfies more than one of them.                                   *)
(***************************************************************************)
C8_PredicatesDisjoint == Intercepted(last) => Cardinality(SigsOf(heap, last)) <= 1

(***************************************************************************)
(* C8 as amended: the hash / HMAC predicate overlaps the two symmetric     *)
(* ones, the other pairs are disjoint; the wrapper tries encrypt, decrypt  *)
(* and hash in that fixed order and stops at the first whose container     *)
(* test holds, so a call yields at most one category: its log lines are of *)
(* one category, that of the symmetric signature it satisfies if it        *)
(* satisfies one, and a call that logs installs no patch.                  *)
(***************************************************************************)
C8_FirstMatchWins ==
    Intercepted(last) =>
        LET sg == SigsOf(heap, last)
        IN /\ Cardinality(sg \ {"HASH_HMAC"}) <= 1
           /\ Cardinality({log[i].cat : i \in LinesOf(last)}) <= 1
           /\ \A c \in sg \cap {"SYM_ENCRYPT", "SYM_DECRYPT"} :
                 LinesOf(last) # {} /\ \A i \in LinesOf(last) : log[i].cat = c
           /\ LinesOf(last) # {} => PatchesOf(last) = {}
\* a call that satisfies both the encrypt and the hash predicate was logged as an encryption only
C8_Witness ==
    /\ Intercepted(last) /\ SigsOf(heap, last) = {"SYM_ENCRYPT", "HASH_HMAC"}
    /\ LinesOf(last) # {} /\ PatchesOf(last) = {}

(***************************************************************************)
(* C9: log entries reach the sink in the order in which the recognized     *)
(* calls were made, also when one is made from inside the original that    *)
(* another wraps: of two entries, the one emitted first belongs to the     *)
(* wrapper activation that started first.                                  *)
(***************************************************************************)
Headers == {i \in DOMAIN log : log[i].tag = "header"}
C9_EmissionInCallOrder == \A i, j \in Headers : i < j => log[i].act < log[j].act

(***************************************************************************)
(* C10 (scenario A): an apply whose container is an arguments object with  *)
(* one value exposing the eight cipher fields and key.sigBytes = 16, whose *)
(* receiver has its own $super and whose caller is an anonymous function   *)
(* without parameters, produces exactly one SYM_ENCRYPT entry, nothing     *)
(* from the engine's own uses of apply and call, and the key length        *)
(* "128bits".                                                              *)
(***************************************************************************)
ScenarioA(h, l) ==
    /\ l.op = "apply" /\ Len(l.args) = 2
    /\ MatchesAnonymousNoArgs(FnSrc(l.f))
    /\ l.args[1].t = "obj" /\ "$super" \in DOMAIN h[l.args[1].s].own
    /\ IsArguments(h, l.args[2]) /\ Len(h[l.args[2].s].elems) = 1
    /\ LET cfg == h[l.args[2].s].elems[1]
       IN /\ ExposesAll(h, cfg, CipherEncryptShape)
          /\ Lookup(h, cfg.s, "key").t = "obj"
          /\ Lookup(h, Lookup(h, cfg.s, "key").s, "sigBytes") = Num(16)
C10_ScenarioA ==
    ScenarioA(heap, last) =>
        LET new == {i \in DOMAIN log : i > last.log0}
        IN /\ Cardinality({i \in new : log[i].tag = "header"}) = 1
           /\ \A i \in new : log[i].cat = "SYM_ENCRYPT" /\ log[i].act = last.act0
           /\ Cardinality({i \in new : log[i].tag = "keyLength"}) = 1
           /\ \A i \in new : log[i].tag = "keyLength" => log[i].v = Str(S_128bits)
\* the scenario ran, with the extractor's own apply and call going through the wrappers
C10_Witness ==
    /\ ScenarioA(heap, last) /\ last.f = "fnAnon" /\ last.out = [k |-> "ret", v |-> Num(1)]
    /\ \E i \in DOMAIN log : i > last.log0 /\ log[i].tag = "keyBase64" /\ log[i].v.d # <<>>
    /\ Len(last.inv) > 2

(***************************************************************************)
(* C11 (scenario B): an apply whose argument container holds exactly two   *)
(* values adds no log entry and completes as the original primitive does   *)
(* for the same function, receiver and container.                          *)
(***************************************************************************)
ScenarioB(h, l) ==
    /\ l.op = "apply" /\ Len(l.args) = 2
    /\ IsArrayLike(h, l.args[2]) /\ Len(h[l.args[2].s].elems) = 2
C11_ScenarioB ==
    ScenarioB(heap, last) => Len(log) = last.log0 /\ last.out = last.ref
\* the discriminant and a key-shaped second value, with no third value, went through in silence
C11_Witness ==
    /\ ScenarioB(heap, last) /\ last.args = <<Obj("cipher"), Obj("argsTwoKey")>>
    /\ last.f = "fnNamed" /\ last.out = [k |-> "ret", v |-> Num(2)]
    /\ Len(log) = last.log0

(***************************************************************************)
(* C12 (scenario C): once a hash-shaped call has patched finalize, every   *)
(* direct call of that finalize produces exactly one HASH_HMAC entry and   *)
(* returns the original finalize's result.                                 *)
(***************************************************************************)
\* the last call was recv.finalize(...) with finalize resolving to a wrapper of the engine
PatchedFinalizeCall(h, cl, l) ==
    /\ l.op = "method" /\ l.f = "finalize"
    /\ Lookup(h, l.thisv.s, "finalize").t = "obj"
    /\ Lookup(h, l.thisv.s, "finalize").s \in DOMAIN cl
\* the HASH_HMAC entries the last call added to the log
HashEntries(l) == {i \in DOMAIN log : i > l.log0 /\ log[i].tag = "header" /\ log[i].cat = "HASH_HMAC"}
C12_EveryFinalizeLogged ==
    PatchedFinalizeCall(heap, closure, last) =>
        Cardinality(HashEntries(last)) = 1 /\ last.out = last.ref

(***************************************************************************)
(* C12 as amended: a direct call of the patched finalize returns the       *)
(* original finalize's result; it produces exactly one HASH_HMAC entry     *)
(* when the receiver has no own init and the original returns, and no      *)
(* entry when the receiver has an own init or the original throws.         *)
(***************************************************************************)
C12_FinalizeLoggedUnlessInit ==
    PatchedFinalizeCall(heap, closure, last) =>
        /\ last.out = last.ref
        /\ Cardinality(HashEntries(last)) =
              IF HasOwn(heap, last.thisv, "init") \/ last.out.k = "throw" THEN 0 ELSE 1
\* the patched finalize was called on a hasher that inherits init and logged once
C12_Witness ==
    /\ PatchedFinalizeCall(heap, closure, last) /\ last.thisv = Obj("hasher1")
    /\ InChain(heap, "hasher1", "init") /\ Cardinality(HashEntries(last)) = 1
    /\ last.out = [k |-> "ret", v |-> Obj("hashWA")]

(***************************************************************************)
(* C13: wordsToHex(words, sigBytes) returns exactly 2 * sigBytes           *)
(* hexadecimal digits, and its i-th byte is byte i, counted from the most  *)
(* significant byte of each word, of the words read as unsigned 32-bit     *)
(* numbers, also for words with the sign bit set; [0x01020304] with        *)
(* sigBytes 3 gives "010203".                                              *)
(***************************************************************************)
\* byte k (0 the most significant) of the 32-bit pattern of w, taken half by half
BigEndianByte(w, k) ==
    LET hi == (w \div 65536) % 65536
        lo == w % 65536
    IN CASE k = 0 -> hi \div 256
         [] k = 1 -> hi % 256
         [] k = 2 -> lo \div 256
         [] OTHER -> lo % 256
\* the byte the digits 2i+1 and 2i+2 of a hex string denote
ByteAt(cs, i) == 16 * HexVal(cs[2 * i + 1]) + HexVal(cs[2 * i + 2])
C13_BigEndianBytes ==
    probe.fn = "wordsToHex" =>
        /\ Len(probe.out) = 2 * probe.n
        /\ \A j \in DOMAIN probe.out : IsLowerHex(probe.out[j])
        /\ \A i \in 0..(probe.n - 1) :
              ByteAt(probe.out, i) = IF i \div 4 < Len(probe.ws)
                                     THEN BigEndianByte(probe.ws[(i \div 4) + 1], i % 4) ELSE 0
\* a word with the sign bit set, then the word 0x01020304 cut at three bytes
C13_Witness ==
    /\ probe.fn = "wordsToHex" /\ probe.ws = <<-559038737, 16909060>> /\ probe.n = 7
    /\ probe.out = <<"d","e","a","d","b","e","e","f","0","1","0","2","0","3">>

(***************************************************************************)
(* C14: round trip: for every byte sequence x, hexToBase64(hex(x)) decoded *)
(* as standard base64 and rendered as hex again is hex(x): the hex and the *)
(* base64 view denote the same bytes.                                      *)
(***************************************************************************)
\* the 6-bit value of a character of the base64 alphabet
B64Index(ch) == (CHOOSE k \in 1..64 : B64Alphabet[k] = ch) - 1
RECURSIVE Base64Decode(_)
\* the bytes a padded base64 text denotes (RFC 4648)
Base64Decode(cs) ==
    IF Len(cs) < 4 THEN <<>>
    ELSE LET b1 == B64Index(cs[1]) * 4 + B64Index(cs[2]) \div 16
         IN IF cs[3] = "=" THEN <<b1>>
            ELSE IF cs[4] = "="
                 THEN <<b1, (B64Index(cs[2]) % 16) * 16 + B64Index(cs[3]) \div 4>>
                 ELSE <<b1, (B64Index(cs[2]) % 16) * 16 + B64Index(cs[3]) \div 4,
                        (B64Index(cs[3]) % 4) * 64 + B64Index(cs[4])>>
                      \o Base64Decode(SubSeq(cs, 5, Len(cs)))
C14_RoundTrip ==
    probe.fn = "hexToBase64" =>
        /\ probe.out.k = "ret" /\ probe.out.v.t = "str"
        /\ Len(probe.out.v.d) = 4 * ((Len(probe.x) + 2) \div 3)
        /\ \A j \in DOMAIN probe.out.v.d :
              probe.out.v.d[j] = "=" \/ \E k \in 1..64 : B64Alphabet[k] = probe.out.v.d[j]
        /\ BytesToHex(Base64Decode(probe.out.v.d)) = probe.hex
\* four bytes with the high bit set in two of them: one full group and one padded group
C14_Witness ==
    /\ probe.fn = "hexToBase64" /\ probe.x = <<255, 128, 1, 97>>
    /\ probe.hex = <<"f","f","8","0","0","1","6","1">>
    /\ probe.out.v.d = <<"/","4","A","B","Y","Q","=","=">>

(***************************************************************************)
(* C15: formatKey never throws, whatever value it is given: where the      *)
(* URI-decoding of the escaped hex fails the string view is the hex        *)
(* itself, and for a malformed key object, one whose own string conversion *)
(* fails included, it returns a partial {string, hex, base64} view.        *)
(***************************************************************************)
C15_FormatKeyNeverThrows ==
    probe.fn = "formatKey" =>
        /\ probe.out.k = "ret"
        /\ probe.fk.hex.t = "str" =>
              \/ probe.fk.string = probe.fk.hex
              \/ decodeURIComponent(PercentEscape(probe.fk.hex.d)) = [ok |-> TRUE, d |-> probe.fk.string.d]

(***************************************************************************)
(* C16: an apply is classified as a symmetric decryption only if its       *)
(* container holds exactly three values, the third of them carries the     *)
(* fields sigBytes and words, and the first is the discriminant; the key   *)
(* reported is extracted from the value whose shape was tested.            *)
(***************************************************************************)
\* the last call was logged as a symmetric decryption by its own wrapper activation
ClassifiedDecrypt(l) == \E i \in LinesOf(l) : log[i].cat = "SYM_DECRYPT" /\ log[i].tag = "header"
\* the hex view logged as the key of the last call is that of value v
KeyReportedFrom(h, l, v) ==
    \E i \in LinesOf(l) : log[i].tag = "keyHex" /\ log[i].v = formatKey(Pristine, v).fk.hex
C16_ThirdCarriesShape ==
    ClassifiedDecrypt(last) =>
        LET c == heap[last.args[2].s].elems
        IN /\ Len(c) = 3 /\ c[1] = Num(2)
           /\ ExposesAll(heap, c[3], CipherDecryptShape)
           /\ KeyReportedFrom(heap, last, c[3])

(***************************************************************************)
(* C16 as amended: the value that must carry sigBytes and words, and from  *)
(* which the key is extracted, is the second of the three.                 *)
(***************************************************************************)
C16_SecondCarriesShape ==
    ClassifiedDecrypt(last) =>
        LET c == heap[last.args[2].s].elems
        IN /\ Len(c) = 3 /\ c[1] = Num(2)
           /\ ExposesAll(heap, c[2], CipherDecryptShape)
           /\ KeyReportedFrom(heap, last, c[2])
\* a decryption was logged with the key of its second value, its third carrying no such fields
C16_Witness ==
    /\ ClassifiedDecrypt(last) /\ last.args = <<Obj("cipher"), Obj("argsDecOK")>>
    /\ ~ExposesAll(heap, heap["argsDecOK"].elems[3], CipherDecryptShape)
    /\ \E i \in LinesOf(last) : log[i].tag = "keyHex" /\ Len(log[i].v.d) = 32

(***************************************************************************)
(* C17: a call is classified as a symmetric decryption only when the       *)
(* decompiled source of the applied function matches none of the caller    *)
(* shapes the encrypt branch accepts: no source text passes both caller    *)
(* tests.                                                                  *)
(***************************************************************************)
C17_CallerTestsExclusive ==
    ClassifiedDecrypt(last) => ~EncCallerTest(Decompile(Obj(last.f)).v.d)

(***************************************************************************)
(* C18: the hash / HMAC signature is recognized on both primitives: a call *)
(* with exactly two object values whose receiver's prototype chain carries *)
(* the markers gets finalize patched, through apply as through call.       *)
(***************************************************************************)
\* the two values handed to the primitive have the shape of the hash signature
HashShape(h, a) == SigHash(h, "apply", "", a)
\* finalize, two levels above the receiver, holds a registered wrapper
FinalizePatched(h, nm, a) ==
    LET gp == h[h[a[1].s].proto].proto
    IN h[gp].own["finalize"].t = "obj" /\ h[gp].own["finalize"].s \in DOMAIN nm
C18_HashOnBothPrimitives ==
    (Intercepted(last) /\ HashShape(heap, last.args)) => FinalizePatched(heap, nativeMap, last.args)

(***************************************************************************)
(* C18 as amended: only the apply wrapper recognizes the signature, and    *)
(* only after the two symmetric container tests have failed; the call      *)
(* wrapper never patches finalize.                                         *)
(***************************************************************************)
\* the container passes the outer test of the encrypt or of the decrypt branch
SymmetricContainer(h, c) ==
    \/ Len(h[c.s].elems) = 1 /\ ExposesAll(h, h[c.s].elems[1], CipherEncryptShape)
    \/ Len(h[c.s].elems) = 3 /\ ExposesAll(h, h[c.s].elems[2], CipherDecryptShape)
C18_HashOnApplyOnly ==
    /\ (last.op = "apply" /\ HashShape(heap, last.args) /\ ~SymmetricContainer(heap, last.args[2]))
          => FinalizePatched(heap, nativeMap, last.args)
    /\ last.op = "call" => \A c \in PatchesOf(last) : closure[c].kind # "finalize"
\* a hash-shaped apply patched finalize / a hash-shaped call went through and left it alone
C18_Witness ==
    /\ calls = 2 /\ last.op = "call" /\ HashShape(heap, last.args)
    /\ FinalizePatched(heap, nativeMap, <<Obj("hasher2")>>)
    /\ ~FinalizePatched(heap, nativeMap, last.args)

(***************************************************************************)
(* C19: on the call path, when the single value's prototype exposes the    *)
(* nine marker fields and that prototype's parent has its own encrypt and  *)
(* its own decrypt, both methods are patched, each at most once over any   *)
(* sequence of calls; when the parent lacks either, neither is patched.    *)
(* Once patched, every direct encrypt (decrypt) call yields exactly one    *)
(* ASYM_ENCRYPT (ASYM_DECRYPT) entry and returns what the original method  *)
(* returns.                                                                *)
(***************************************************************************)
\* the parent of the prototype of the value handed to call
KeyParent(h, a) == h[h[a[1].s].proto].proto
\* method m of object id is a registered wrapper of the given kind
MethodPatched(h, nm, cl, id, m) ==
    /\ m \in DOMAIN h[id].own /\ h[id].own[m].t = "obj"
    /\ h[id].own[m].s \in DOMAIN nm /\ h[id].own[m].s \in DOMAIN cl /\ cl[h[id].own[m].s].kind = m
\* the entries of category cat the last call added to the log
EntriesOf(l, cat) == {i \in DOMAIN log : i > l.log0 /\ log[i].tag = "header" /\ log[i].cat = cat}
\* the last call was recv.m(...) with m resolving to a wrapper of kind m
PatchedMethodCall(h, cl, l, m) ==
    /\ l.op = "method" /\ l.f = m
    /\ Lookup(h, l.thisv.s, m).t = "obj" /\ Lookup(h, l.thisv.s, m).s \in DOMAIN cl
    /\ cl[Lookup(h, l.thisv.s, m).s].kind = m
\* the patching half of the claim
AsymmetricPatching ==
    /\ (last.op = "call" /\ SigAsym(heap, last.op, last.f, last.args)) =>
          LET gp == KeyParent(heap, last.args)
          IN IF gp # "null" /\ {"encrypt", "decrypt"} \subseteq DOMAIN heap[gp].own
             THEN MethodPatched(heap, nativeMap, closure, gp, "encrypt")
                  /\ MethodPatched(heap, nativeMap, closure, gp, "decrypt")
             ELSE PatchesOf(last) = {}
    /\ \A sl \in Slots : Cardinality(WrappersAt(closure, sl)) <= 1
C19_AsymmetricPatch ==
    /\ AsymmetricPatching
    /\ PatchedMethodCall(heap, closure, last, "encrypt") =>
          Cardinality(EntriesOf(last, "ASYM_ENCRYPT")) = 1 /\ last.out = last.ref
    /\ PatchedMethodCall(heap, closure, last, "decrypt") =>
          Cardinality(EntriesOf(last, "ASYM_DECRYPT")) = 1 /\ last.out = last.ref
\* C19 as amended: the same, with one entry for every direct call whose
\* original returns, and no entry and the same throw when the original throws
C19_AsymmetricPatchWhenReturning ==
    /\ AsymmetricPatching
    /\ PatchedMethodCall(heap, closure, last, "encrypt") =>
          /\ last.out = last.ref
          /\ Cardinality(EntriesOf(last, "ASYM_ENCRYPT")) = IF last.ref.k = "ret" THEN 1 ELSE 0
    /\ PatchedMethodCall(heap, closure, last, "decrypt") =>
          /\ last.out = last.ref
          /\ Cardinality(EntriesOf(last, "ASYM_DECRYPT")) = IF last.ref.k = "ret" THEN 1 ELSE 0
\* both methods were patched by a call, and a direct encrypt was then logged once
C19_Witness ==
    /\ calls = 2 /\ PatchedMethodCall(heap, closure, last, "encrypt")
    /\ MethodPatched(heap, nativeMap, closure, "RSAKeyProto", "decrypt")
    /\ Cardinality(EntriesOf(last, "ASYM_ENCRYPT")) = 1
    /\ last.out = [k |-> "ret", v |-> Str(<<"0","a","1","b">>)]

(***************************************************************************)
(* C20: re-entrant dispatch terminates.  Every call of the program         *)
(* completes although the wrappers dispatch through the hooked primitives: *)
(* the wrapper activations one external call causes nest to a bounded      *)
(* depth (one lazily patched method, reached through call, around one      *)
(* intercepted apply with its nested toString/fromCharCode dispatch), and  *)
(* no wrapper has itself, or another wrapper, as the original it invokes.  *)
(***************************************************************************)
\* the value v is a registered wrapper
IsWrapper(nm, v) == v.t = "obj" /\ v.s \in DOMAIN nm
\* the original a wrapper invokes is neither the wrapper nor another wrapper
OriginalsUnwrapped(nm, cl) ==
    /\ \A c \in DOMAIN cl : cl[c].orig # Obj(c) /\ ~IsWrapper(nm, cl[c].orig)
    /\ \A w \in DOMAIN nm : nm[w] # Obj(w) /\ ~IsWrapper(nm, nm[w])
C20_ReentrantDispatchBounded ==
    /\ OriginalsUnwrapped(nativeMap, closure)
    /\ last.op # "none" =>
          /\ last.out.k \in {"ret", "throw"}
          /\ act - last.act0 + 1 <= 12
          /\ last.deep <= 5
          /\ Intercepted(last) /\ ~IsWrapper(nativeMap, Obj(last.f)) => last.deep <= 3
\* a patched finalize whose original applies the cipher's init: finalizeHook,
\* callHook, applyHook, and under it the nested apply and call activations
C20_Witness ==
    /\ last.op = "method" /\ last.f = "finalize" /\ last.deep = 5
    /\ Len(last.inv) >= 5 /\ last.out = last.ref /\ last.out.k = "ret"

(***************************************************************************)
(* C21: patch state is monotone per target.  Each target (toString, apply, *)
(* call and each discovered finalize / encrypt / decrypt slot) that holds  *)
(* a registered wrapper holds a registered wrapper in every later state,   *)
(* and no entry of a registry is ever removed or changed.                  *)
(***************************************************************************)
\* the slots of Function.prototype the script replaces
PrimitiveSlots == {<<"FunctionPrototype", "toString">>, <<"FunctionPrototype", "apply">>,
                   <<"FunctionPrototype", "call">>}
\* the slot holds a wrapper registered by a run of the script
Patched(h, nm, nm2, sl) ==
    SlotValue(h, sl).t = "obj" /\ (SlotValue(h, sl).s \in DOMAIN nm \/ SlotValue(h, sl).s \in DOMAIN nm2)
\* every entry of registry r is an entry of registry r2
Kept(r, r2) == \A w \in DOMAIN r : w \in DOMAIN r2 /\ r2[w] = r[w]
C21_PatchedStaysPatched ==
    [][/\ \A sl \in PrimitiveSlots \cup Slots :
             Patched(heap, nativeMap, second.nativeMap, sl) => Patched(heap', nativeMap', second'.nativeMap, sl)
       /\ Kept(nativeMap, nativeMap')
       /\ Kept(second.nativeMap, second'.nativeMap)]_vars
\* finalize was patched by the first call and is still patched after a later call
\* and a second run of the script
C21_Witness ==
    /\ calls = 2 /\ second.done
    /\ \E c \in WrappersAt(closure, <<"Hasher1", "finalize">>) :
          closure[c].by < last.act0 /\ SlotValue(heap, <<"Hasher1", "finalize">>) = Obj(c)
    /\ \A sl \in PrimitiveSlots : Patched(heap, nativeMap, second.nativeMap, sl)

(***************************************************************************)
(* C22: each of the two generic invocation primitives is replaced exactly  *)
(* once: in every state after installation, also after the script has run  *)
(* again in the same page, Function.prototype.apply and                    *)
(* Function.prototype.call each hold one wrapper whose captured original   *)
(* is the native primitive, never a wrapper around another wrapper.        *)
(***************************************************************************)
\* the original the run of the script that created wrapper w captured and registered for it
OriginalOf(nm, nm2, w) == IF w \in DOMAIN nm2 THEN nm2[w] ELSE nm[w]
C22_PrimitivesWrappedOnce ==
    /\ Patched(heap, nativeMap, second.nativeMap, <<"FunctionPrototype", "apply">>)
    /\ OriginalOf(nativeMap, second.nativeMap, heap["FunctionPrototype"].own["apply"].s) = Obj("native_apply")
    /\ Patched(heap, nativeMap, second.nativeMap, <<"FunctionPrototype", "call">>)
    /\ OriginalOf(nativeMap, second.nativeMap, heap["FunctionPrototype"].own["call"].s) = Obj("native_call")

(***************************************************************************)
(* C23: every completed invocation of a wrapper (applyHook, callHook,      *)
(* finalizeHook, encryptHook, decryptHook) invokes the original it         *)
(* captured exactly once, with the receiver and the arguments the wrapper  *)
(* was given, in the same order, whichever branch of the wrapper ran.  An  *)
(* invocation is completed when the wrapper ran to its end: one that its   *)
(* own analysis code aborted with an error is not.                         *)
(***************************************************************************)
WrapperKinds == {"apply", "call", "finalize", "encrypt", "decrypt"}
\* the call-throughs activation a made during the last call of the program
SentBy(l, a) == {j \in DOMAIN l.sent : l.sent[j].act = a}
C23_OriginalInvokedOnce ==
    \A i \in DOMAIN last.got :
       (last.got[i].fn \in WrapperKinds /\ last.got[i].act \notin last.failed) =>
          /\ Cardinality(SentBy(last, last.got[i].act)) = 1
          /\ \A j \in SentBy(last, last.got[i].act) :
                last.sent[j].recv = last.got[i].recv /\ last.sent[j].args = last.got[i].args
\* a direct decrypt on the patched slot: decryptHook handed its receiver and its
\* ciphertext to the original once and returned what it returned
C23_Witness ==
    /\ PatchedMethodCall(heap, closure, last, "decrypt") /\ last.failed = {}
    /\ last.got[1] = [act |-> last.act0, fn |-> "decrypt", recv |-> Obj("rsaKey"), args |-> <<Str(<<"0","a","1","b">>)>>]
    /\ last.sent[1] = [act |-> last.act0, recv |-> Obj("rsaKey"), args |-> <<Str(<<"0","a","1","b">>)>>]
    /\ last.out = [k |-> "ret", v |-> Str(<<"p","t">>)]

(***************************************************************************)
(* C24: the registry never chains.  In every state reached with the script *)
(* run once, no function stored as an original (a value of _nativeMap) is  *)
(* itself a registered wrapper (a key of _nativeMap): resolving the source *)
(* of a wrapper takes one lookup.                                          *)
(***************************************************************************)
\* the functions registry r stores as originals
OriginalsIn(r) == {r[w].s : w \in {x \in DOMAIN r : r[x].t = "obj"}}
C24_RegistryNeverChains == OriginalsIn(nativeMap) \cap DOMAIN nativeMap = {}
\* three lazily patched methods next to the three primitives, each registered
\* with an original that is no wrapper
C24_Witness ==
    /\ calls = 2 /\ Cardinality(DOMAIN nativeMap) = 6
    /\ {"finalize1", "encrypt1", "decrypt1", "native_apply"} \subseteq OriginalsIn(nativeMap)

(***************************************************************************)
(* The debugger page on its own, with the one socket a page is meant to    *)
(* have: the socket's notifications, the timeouts, the polling, the        *)
(* server's paused events and the user's actions.                          *)
(***************************************************************************)
DebugSpec == Init /\ [][DebugNext]_vars

\* the AI analysis of the page
AnalysisSpec == Init /\ [][AnalysisNext]_vars

\* the creation of the page's socket
SocketSpec == Init /\ [][SocketNext]_vars

\* the connections, the polling and the sessions, without paused events,
\* with every socket initWebSocket can create
PollingSpec == Init /\ [][PollingNext]_vars

(***************************************************************************)
(* C25: polling is enabled exactly when debugPollTimer holds a live        *)
(* interval, and the browser never holds more than one polling interval,   *)
(* whatever order the socket's notifications, the timeouts, the starts and *)
(* the stops come in.                                                      *)
(***************************************************************************)
C25_PollingTimerInStep ==
    /\ debug.pollEnabled <=> (debug.debugPollTimer # 0 /\ debug.debugPollTimer \in net.intervals)
    /\ Cardinality(net.intervals) <= 1
    /\ net.intervals \subseteq {debug.debugPollTimer}

\* the debugging was started twice, and polling runs on its one interval
\* after the third failed attempt to connect
C25_Witness ==
    /\ debug.pollEnabled /\ net.intervals = {debug.debugPollTimer}
    /\ net.starts = 2 /\ net.connected = {} /\ app.socket # 0
    /\ debug.wsFailureCount = 3

(***************************************************************************)
(* C26: once a handler has completed, polling is enabled only while a      *)
(* debug session is current (currentDebugSession is not null).             *)
(***************************************************************************)
C26_PollingOnlyWithSession == debug.pollEnabled => debug.currentDebugSession # 0

(***************************************************************************)
(* C27: polling is a fallback only: it is never enabled while the socket   *)
(* is marked healthy (pollEnabled implies that wsHealthy is false).        *)
(***************************************************************************)
C27_PollingOnlyWhenUnhealthy == debug.pollEnabled => ~debug.wsHealthy

(***************************************************************************)
(* C28: between two starts of the debugging, a paused event with a         *)
(* sequence number above zero is handled, and appended to PauseStore, at   *)
(* most once, whether the socket delivers it, the polling, or both.        *)
(***************************************************************************)
C28_PausedHandledOnce == \A h \in net.handled : h.seq > 0 => h.n = 1

(***************************************************************************)
(* C29: at most one analysis stream appends to analysisContent: every      *)
(* chunk of analysisContent that came from a reader came from the reader   *)
(* of the analysis started last, the one the content belongs to.           *)
(***************************************************************************)
C29_OneStreamAppends ==
    \A i \in 1..Len(analysis.analysisContent) :
        analysis.analysisContent[i] \in {0, Len(streams.runs)}

(***************************************************************************)
(* C30: over the life of the page initWebSocket assigns AppState.socket at *)
(* most once, so that at most one Socket.IO connection is created.         *)
(***************************************************************************)
C30_OneSocketCreated == app.socket <= 1

====
